---- MODULE Spec2Model ----
(***************************************************************************)
(* Building-plan compliance checking: the two compliance engines of the    *)
(* repository, modelled from their code.                                   *)
(*                                                                         *)
(*   ComplianceValidator.check_compliance  src/src/modules/                *)
(*                                         compliance_validator.py         *)
(*   check_compliance (standalone)         src/src/compliance_engine/      *)
(*                                         validator.py                    *)
(*                                                                         *)
(* Numbers.  The code computes on Python floats.  The model is fixed       *)
(* point: lengths (heights, setbacks, distances) are integers counting     *)
(* thousandths of a metre, areas are whole square metres, and the two      *)
(* ratio thresholds (max_far, max_coverage) are thousandths.  A quotient   *)
(* of two areas is kept as the pair of its operands and compared by        *)
(* cross-multiplication, so comparisons are exact.  The format             *)
(* specifications of the messages (:.2f, :.1%, :.0%) are modelled by what  *)
(* they do: they round to the stated number of decimals.  The rounding     *)
(* error of the float operands themselves is not modelled.                 *)
(*                                                                         *)
(* An optional value (a by-law the PDF did not state is None) is <<>> for  *)
(* None and <<v>> for the number v.                                        *)
(***************************************************************************)
EXTENDS Integers, Sequences, FiniteSets, TLC

VARIABLES
    by_laws,       \* the call's by_laws argument: rule key -> optional threshold
    dxf_metrics,   \* the call's dxf_metrics argument: metric key -> number
    gis_result,    \* the call's gis_result argument
    found_rules,   \* the call's found_rules argument: set of rule keys
    violations,    \* ComplianceValidator.violations (self.violations)
    compliant,     \* ComplianceValidator.compliant (self.compliant)
    ret,           \* outcome of the last ComplianceValidator.check_compliance call
    sret,          \* outcome of validator.check_compliance on the same records
    heap,          \* the list objects: identity -> contents
    vref,          \* identity of the list self.violations is bound to
    kept,          \* a result of an earlier call that the caller still holds
    log,           \* the events the last check_compliance call logged
    pc,            \* concurrent calls: thread -> the statement it executes next
    targs,         \* concurrent calls: thread -> the arguments of its call
    self,          \* concurrent calls: thread -> the validator it calls
    inst,          \* concurrent calls: validator -> its violations and compliant
    lists,         \* concurrent calls: list identity -> contents
    tret,          \* concurrent calls: thread -> outcome of its call
    program,       \* pipeline: the entry point that runs, main.py or main_bkp_1.py
    env,           \* pipeline: the input files and what the extractors make of them
    ppc,           \* pipeline: the statement of main / run_pipeline executed next
    locals,        \* pipeline: the records run_pipeline has assigned so far
    trace,         \* pipeline: the phases invoked so far and how each ended
    pexc,          \* pipeline: the exception in flight
    pret,          \* pipeline: outcome of run_pipeline
    reported,      \* pipeline: the status the summary or report printed
    exit_code,     \* pipeline: the code passed to sys.exit
    pdf_found_rules, \* PDFDataExtractor.found_rules (self.found_rules)
    pdf_call,      \* the last call on the PDFDataExtractor and its input
    pdf_ret,       \* outcome of the last call on the PDFDataExtractor
    dxf_file,      \* the drawing of the last DXFParser.parse_floor_plan call
    dxf_ret        \* outcome of the last DXFParser.parse_floor_plan call

\* The variables of the calls of one caller.
seqvars == <<by_laws, dxf_metrics, gis_result, found_rules, violations, compliant, ret, sret,
             heap, vref, kept, log>>

\* The variables of the concurrent calls.
concvars == <<pc, targs, self, inst, lists, tret>>

\* The variables of the pipeline run.
pipevars == <<program, env, ppc, locals, trace, pexc, pret, reported, exit_code>>

\* The variables of the PDF extractor.
pdfvars == <<pdf_found_rules, pdf_call, pdf_ret>>

\* The variables of the DXF parser.
dxfvars == <<dxf_file, dxf_ret>>

\* The variables of the two extractors.
extvars == <<pdf_found_rules, pdf_call, pdf_ret, dxf_file, dxf_ret>>

vars == <<by_laws, dxf_metrics, gis_result, found_rules, violations, compliant, ret, sret,
          heap, vref, kept, log, pc, targs, self, inst, lists, tret,
          program, env, ppc, locals, trace, pexc, pret, reported, exit_code,
          pdf_found_rules, pdf_call, pdf_ret, dxf_file, dxf_ret>>

-----------------------------------------------------------------------------
(* Optional values and outcomes *)

None == <<>>

Some(v) == <<v>>

IsNone(o) == o = <<>>

Val(o) == o[1]

\* No call has been made (or its result has been superseded).
NoCall == [status |-> "none"]

\* A call that returned the tuple (approved, violations).
Returned(a, vs) == [status |-> "returned", approved |-> a, violations |-> vs]

\* A call that left by an exception of type exc raised in the check `at`.
Raised(exc, at) == [status |-> "raised", exc |-> exc, at |-> at]

\* Progress of the checks of one call: the violations so far and the
\* exception (if any) that ended the call.
Ok(vs) == [violations |-> vs, exc |-> "", at |-> ""]

Exc(vs, exc, at) == [violations |-> vs, exc |-> exc, at |-> at]

-----------------------------------------------------------------------------
(* Number formatting *)

\* n / d rounded to the nearest integer, ties to even (d > 0).
RoundDiv(n, d) ==
    LET q == n \div d
        r == n % d
    IN  IF 2 * r < d THEN q
        ELSE IF 2 * r > d THEN q + 1
        ELSE IF q % 2 = 0 THEN q ELSE q + 1

\* f"{x:.2f}" of a length x: hundredths of a metre.
Fmt2(x) == RoundDiv(x, 10)

\* f"{n/d:.2f}" of a quotient of areas: hundredths.
FmtRatio2(n, d) == RoundDiv(100 * n, d)

\* f"{n/d:.1%}" of a quotient of areas: tenths of a percent.
FmtRatioPct1(n, d) == RoundDiv(1000 * n, d)

\* f"{t:.2f}" of a ratio threshold t (thousandths): hundredths.
FmtThreshold2(t) == RoundDiv(t, 10)

\* f"{t:.1%}" of a ratio threshold t (thousandths): tenths of a percent.
FmtThresholdPct1(t) == t

\* f"{t:.0%}" of a ratio threshold t (thousandths): whole percents.
FmtThresholdPct0(t) == RoundDiv(t, 10)

\* f"{area * t:.2f}" of an area times a ratio threshold: hundredths of a m2.
FmtArea2(area, t) == RoundDiv(area * t, 10)

-----------------------------------------------------------------------------
(* ComplianceValidator (src/src/modules/compliance_validator.py) *)

\* A faulty height message: the excess taken as allowed - actual.
HeightViolation_Reversed(actual, allowed) ==
    [kind |-> "height", excess |-> Fmt2(allowed - actual)]

\* The violation strings, as records of what each f-string interpolates.
HeightViolation(actual, allowed) ==
    [kind |-> "height", excess |-> Fmt2(actual - allowed)]

SetbackViolation(name, actual, required) ==
    [kind |-> "setback", name |-> name, actual |-> Fmt2(actual), required |-> required]

FarViolation(total, plot, allowed) ==
    [kind |-> "far", far |-> FmtRatio2(total, plot), allowed |-> FmtThreshold2(allowed)]

CoverageViolation(footprint, plot, allowed) ==
    [kind |-> "coverage", coverage |-> FmtRatioPct1(footprint, plot),
     allowed |-> FmtThresholdPct1(allowed)]

\* A faulty _check_height: the rule counts as present whenever by_laws
\* holds a value for it, found or not.
_check_height_IgnoringFound(vs, bl, dm, fr) ==
    IF IsNone(bl["max_height_m"]) THEN Ok(vs)
    ELSE IF dm["height_m"] > Val(bl["max_height_m"])
         THEN Ok(Append(vs, [kind |-> "height",
                             excess |-> Fmt2(dm["height_m"] - Val(bl["max_height_m"]))]))
         ELSE Ok(vs)

\* _check_height: appends to the violations vs of the running call.
\* dxf_metrics["height_m"] raises KeyError on a missing key; formatting a
\* None threshold with :.2f in the log line raises TypeError.
_check_height(vs, bl, dm, fr) ==
    IF "max_height_m" \notin fr THEN Ok(vs)
    ELSE IF "height_m" \notin DOMAIN dm THEN Exc(vs, "KeyError", "height")
    ELSE IF IsNone(bl["max_height_m"]) THEN Exc(vs, "TypeError", "height")
    ELSE LET actual == dm["height_m"]
             allowed == Val(bl["max_height_m"])
         IN  IF actual > allowed
             THEN Ok(Append(vs, HeightViolation(actual, allowed)))
             ELSE Ok(vs)

\* A faulty list: the right side checked on the left setback.
setbacks_RightReadsLeft ==
    << <<"front", "min_setback_front_m", "setback_front_m">>,
       <<"rear", "min_setback_rear_m", "setback_rear_m">>,
       <<"left side", "min_setback_side_m", "setback_left_m">>,
       <<"right side", "min_setback_side_m", "setback_left_m">> >>

\* A faulty list: the rear setback checked before the front one.
setbacks_RearFirst ==
    << <<"rear", "min_setback_rear_m", "setback_rear_m">>,
       <<"front", "min_setback_front_m", "setback_front_m">>,
       <<"left side", "min_setback_side_m", "setback_left_m">>,
       <<"right side", "min_setback_side_m", "setback_right_m">> >>

\* The list the loop of _check_setbacks runs over: (name, rule_key, metric_key).
setbacks ==
    << <<"front", "min_setback_front_m", "setback_front_m">>,
       <<"rear", "min_setback_rear_m", "setback_rear_m">>,
       <<"left side", "min_setback_side_m", "setback_left_m">>,
       <<"right side", "min_setback_side_m", "setback_right_m">> >>

\* One iteration of the loop of _check_setbacks.
SetbackIteration(vs, entry, bl, dm, fr) ==
    LET name == entry[1]
        rule_key == entry[2]
        metric_key == entry[3]
    IN  IF rule_key \notin fr THEN Ok(vs)
        ELSE IF metric_key \notin DOMAIN dm THEN Exc(vs, "KeyError", name)
        ELSE IF IsNone(bl[rule_key]) THEN Exc(vs, "TypeError", name)
        ELSE LET actual == dm[metric_key]
                 required == Val(bl[rule_key])
             IN  IF actual < required
                 THEN Ok(Append(vs, SetbackViolation(name, actual, required)))
                 ELSE Ok(vs)

\* A faulty loop: it ends at the first setback violation it finds.
RECURSIVE SetbackLoop_StopsAtFirst(_, _, _, _, _)
SetbackLoop_StopsAtFirst(i, vs, bl, dm, fr) ==
    IF i > 4 THEN Ok(vs)
    ELSE LET r == SetbackIteration(vs, setbacks[i], bl, dm, fr)
         IN  IF r.exc # "" \/ Len(r.violations) > Len(vs) THEN r
             ELSE SetbackLoop_StopsAtFirst(i + 1, r.violations, bl, dm, fr)

\* The loop of _check_setbacks from entry i on; an exception ends it.
RECURSIVE SetbackLoop(_, _, _, _, _)
SetbackLoop(i, vs, bl, dm, fr) ==
    IF i > Len(setbacks) THEN Ok(vs)
    ELSE LET r == SetbackIteration(vs, setbacks[i], bl, dm, fr)
         IN  IF r.exc # "" THEN r
             ELSE SetbackLoop(i + 1, r.violations, bl, dm, fr)

_check_setbacks(vs, bl, dm, fr) == SetbackLoop(1, vs, bl, dm, fr)

\* A faulty _check_far: the footprint area in place of the total area.
_check_far_OnFootprint(vs, bl, dm, gr, fr) ==
    IF ~("max_far" \in fr /\ gr.plot_area_m2 > 0) THEN Ok(vs)
    ELSE IF IsNone(bl["max_far"]) THEN Exc(vs, "TypeError", "far")
    ELSE IF dm["footprint_area_m2"] * 1000 > Val(bl["max_far"]) * gr.plot_area_m2
         THEN Ok(Append(vs, [kind |-> "far",
                             far |-> FmtRatio2(dm["footprint_area_m2"], gr.plot_area_m2),
                             allowed |-> FmtThreshold2(Val(bl["max_far"]))]))
         ELSE Ok(vs)

\* A faulty _check_far: no guard on the plot area, so that a zero plot area
\* divides by zero (as validator.py does).
_check_far_Unguarded(vs, bl, dm, gr, fr) ==
    IF "max_far" \notin fr THEN Ok(vs)
    ELSE IF gr.plot_area_m2 = 0 THEN Exc(vs, "ZeroDivisionError", "far")
    ELSE IF IsNone(bl["max_far"]) THEN Exc(vs, "TypeError", "far")
    ELSE IF dm["total_area_m2"] * 1000 > Val(bl["max_far"]) * gr.plot_area_m2
         THEN Ok(Append(vs, [kind |-> "far",
                             far |-> FmtRatio2(dm["total_area_m2"], gr.plot_area_m2),
                             allowed |-> FmtThreshold2(Val(bl["max_far"]))]))
         ELSE Ok(vs)

\* _check_far: far = total_area_m2 / plot_area_m2, evaluated only when the
\* rule was found and the plot area is positive.
_check_far(vs, bl, dm, gr, fr) ==
    IF "max_far" \notin fr THEN Ok(vs)
    ELSE IF "plot_area_m2" \notin DOMAIN gr THEN Exc(vs, "KeyError", "far")
    ELSE IF ~(gr.plot_area_m2 > 0) THEN Ok(vs)
    ELSE IF "total_area_m2" \notin DOMAIN dm THEN Exc(vs, "KeyError", "far")
    ELSE IF IsNone(bl["max_far"]) THEN Exc(vs, "TypeError", "far")
    ELSE LET total == dm["total_area_m2"]
             plot == gr.plot_area_m2
             allowed == Val(bl["max_far"])
         IN  IF total * 1000 > allowed * plot      \* far > allowed
             THEN Ok(Append(vs, FarViolation(total, plot, allowed)))
             ELSE Ok(vs)

\* A faulty _check_coverage: the total built area in place of the footprint.
_check_coverage_OnTotal(vs, bl, dm, gr, fr) ==
    IF ~("max_coverage" \in fr /\ gr.plot_area_m2 > 0) THEN Ok(vs)
    ELSE IF IsNone(bl["max_coverage"]) THEN Exc(vs, "TypeError", "coverage")
    ELSE IF dm["total_area_m2"] * 1000 > Val(bl["max_coverage"]) * gr.plot_area_m2
         THEN Ok(Append(vs, [kind |-> "coverage",
                             coverage |-> FmtRatioPct1(dm["total_area_m2"], gr.plot_area_m2),
                             allowed |-> FmtThresholdPct1(Val(bl["max_coverage"]))]))
         ELSE Ok(vs)

\* _check_coverage: coverage = footprint_area_m2 / plot_area_m2.
_check_coverage(vs, bl, dm, gr, fr) ==
    IF "max_coverage" \notin fr THEN Ok(vs)
    ELSE IF "plot_area_m2" \notin DOMAIN gr THEN Exc(vs, "KeyError", "coverage")
    ELSE IF ~(gr.plot_area_m2 > 0) THEN Ok(vs)
    ELSE IF "footprint_area_m2" \notin DOMAIN dm THEN Exc(vs, "KeyError", "coverage")
    ELSE IF IsNone(bl["max_coverage"]) THEN Exc(vs, "TypeError", "coverage")
    ELSE LET footprint == dm["footprint_area_m2"]
             plot == gr.plot_area_m2
             allowed == Val(bl["max_coverage"])
         IN  IF footprint * 1000 > allowed * plot  \* coverage > allowed
             THEN Ok(Append(vs, CoverageViolation(footprint, plot, allowed)))
             ELSE Ok(vs)

\* The four checks of check_compliance in order, from self.violations = [];
\* an exception in one check ends the call before the later ones run.
\* A faulty run of the checks: the list of the earlier call is not reset.
RunChecks_NoReset(bl, dm, gr, fr) ==
    LET r1 == _check_height(violations, bl, dm, fr)
        r2 == IF r1.exc # "" THEN r1 ELSE _check_setbacks(r1.violations, bl, dm, fr)
        r3 == IF r2.exc # "" THEN r2 ELSE _check_far(r2.violations, bl, dm, gr, fr)
        r4 == IF r3.exc # "" THEN r3 ELSE _check_coverage(r3.violations, bl, dm, gr, fr)
    IN  r4

\* The four checks of check_compliance on the list reset to [].
RunChecks(bl, dm, gr, fr) ==
    LET r1 == _check_height(<<>>, bl, dm, fr)
        r2 == IF r1.exc # "" THEN r1 ELSE _check_setbacks(r1.violations, bl, dm, fr)
        r3 == IF r2.exc # "" THEN r2 ELSE _check_far(r2.violations, bl, dm, gr, fr)
        r4 == IF r3.exc # "" THEN r3 ELSE _check_coverage(r3.violations, bl, dm, gr, fr)
    IN  r4

\* A faulty verdict: self.compliant left at the True of __init__.
Compliant_NeverCleared(vs) == TRUE

\* self.compliant = len(self.violations) == 0
Compliant(vs) == Len(vs) = 0

\* The log events of check_compliance, in the order logger emits them: the
\* comparison a check announces (info), its violation (warning) or its
\* "compliant" line (info), and the lines around the checks.  A check
\* that raises does so before it logs anything.
Checked(c) == [event |-> "check", check |-> c]

Violated(c) == [event |-> "violation", check |-> c]

Passed(c) == [event |-> "compliant", check |-> c]

\* The events of _check_height.
LogHeight(bl, dm, fr) ==
    IF "max_height_m" \notin fr THEN <<>>
    ELSE IF "height_m" \notin DOMAIN dm \/ IsNone(bl["max_height_m"]) THEN <<>>
    ELSE IF dm["height_m"] > Val(bl["max_height_m"])
         THEN <<Checked("height"), Violated("height")>>
         ELSE <<Checked("height"), Passed("height")>>

\* The events of one iteration of the loop of _check_setbacks.
LogSetbackIteration(entry, bl, dm, fr) ==
    LET name == entry[1]
        rule_key == entry[2]
        metric_key == entry[3]
    IN  IF rule_key \notin fr THEN <<>>
        ELSE IF metric_key \notin DOMAIN dm \/ IsNone(bl[rule_key]) THEN <<>>
        ELSE IF dm[metric_key] < Val(bl[rule_key])
             THEN <<Checked(name), Violated(name)>>
             ELSE <<Checked(name), Passed(name)>>

\* The events of _check_setbacks from entry i on; an exception ends the loop.
RECURSIVE LogSetbackLoop(_, _, _, _)
LogSetbackLoop(i, bl, dm, fr) ==
    IF i > Len(setbacks) THEN <<>>
    ELSE IF /\ setbacks[i][2] \in fr
            /\ (setbacks[i][3] \notin DOMAIN dm \/ IsNone(bl[setbacks[i][2]]))
         THEN <<>>
    ELSE LogSetbackIteration(setbacks[i], bl, dm, fr) \o LogSetbackLoop(i + 1, bl, dm, fr)

\* A faulty _check_far: it announces nothing and logs only a violation.
LogFar_OnlyViolations(bl, dm, gr, fr) ==
    IF "max_far" \notin fr \/ "plot_area_m2" \notin DOMAIN gr THEN <<>>
    ELSE IF ~(gr.plot_area_m2 > 0) THEN <<>>
    ELSE IF "total_area_m2" \notin DOMAIN dm \/ IsNone(bl["max_far"]) THEN <<>>
    ELSE IF dm["total_area_m2"] * 1000 > Val(bl["max_far"]) * gr.plot_area_m2
         THEN <<Violated("far")>>
         ELSE <<>>

\* The events of _check_far: none when the guard skips the check.
LogFar(bl, dm, gr, fr) ==
    IF "max_far" \notin fr \/ "plot_area_m2" \notin DOMAIN gr THEN <<>>
    ELSE IF ~(gr.plot_area_m2 > 0) THEN <<>>
    ELSE IF "total_area_m2" \notin DOMAIN dm \/ IsNone(bl["max_far"]) THEN <<>>
    ELSE IF dm["total_area_m2"] * 1000 > Val(bl["max_far"]) * gr.plot_area_m2
         THEN <<Checked("far"), Violated("far")>>
         ELSE <<Checked("far"), Passed("far")>>

\* The events of _check_coverage: none when the guard skips the check.
LogCoverage(bl, dm, gr, fr) ==
    IF "max_coverage" \notin fr \/ "plot_area_m2" \notin DOMAIN gr THEN <<>>
    ELSE IF ~(gr.plot_area_m2 > 0) THEN <<>>
    ELSE IF "footprint_area_m2" \notin DOMAIN dm \/ IsNone(bl["max_coverage"]) THEN <<>>
    ELSE IF dm["footprint_area_m2"] * 1000 > Val(bl["max_coverage"]) * gr.plot_area_m2
         THEN <<Checked("coverage"), Violated("coverage")>>
         ELSE <<Checked("coverage"), Passed("coverage")>>

\* The events of one check_compliance call: the opening lines, the events
\* of the checks up to the first that raises, and, when none raises, the
\* overall status and the number of violations.
LogOfCall(bl, dm, gr, fr) ==
    LET r1 == _check_height(<<>>, bl, dm, fr)
        r2 == _check_setbacks(r1.violations, bl, dm, fr)
        r3 == _check_far(r2.violations, bl, dm, gr, fr)
        r4 == _check_coverage(r3.violations, bl, dm, gr, fr)
        e0 == <<[event |-> "starting"], [event |-> "header"]>>
        e1 == e0 \o LogHeight(bl, dm, fr)
        e2 == e1 \o LogSetbackLoop(1, bl, dm, fr)
        e3 == e2 \o LogFar(bl, dm, gr, fr)
        e4 == e3 \o LogCoverage(bl, dm, gr, fr)
    IN  IF r1.exc # "" THEN e1
        ELSE IF r2.exc # "" THEN e2
        ELSE IF r3.exc # "" THEN e3
        ELSE IF r4.exc # "" THEN e4
        ELSE e4 \o <<[event |-> "overall", passed |-> Compliant(r4.violations),
                      violations |-> Len(r4.violations)]>>

\* The identities of list objects.  Two lists can be alive at a time: the
\* one self.violations is bound to and one the caller holds from an earlier
\* call.
ListIds == {1, 2}

\* The caller holds no result.
NoKept == [status |-> "none"]

\* The list objects the caller can still reach.
KeptLists == IF kept = NoKept \/ kept.outcome.status # "returned" THEN {} ELSE {kept.ref}

\* A faulty reset: the list is emptied in place (self.violations.clear()).
ResetViolations_InPlace ==
    [ref |-> vref, heap |-> [heap EXCEPT ![vref] = <<>>]]

\* self.violations = []: a new empty list object is bound to the attribute.
\* The new object is distinct from every list the caller still holds; the
\* identity of a list that nothing refers to any more is free again.
ResetViolations ==
    LET new == CHOOSE i \in ListIds \ KeptLists : \A j \in ListIds \ KeptLists : i <= j
    IN  [ref |-> new,
         heap |-> [i \in ListIds |-> IF i \in KeptLists THEN heap[i] ELSE <<>>]]

-----------------------------------------------------------------------------
(* Standalone engine (src/src/compliance_engine/validator.py) *)

\* -(-n // d): math.ceil of a quotient of non-negative integers (d > 0).
CeilDiv(n, d) == (n + d - 1) \div d

BoundaryViolationS(distance) ==
    [kind |-> "boundary", distance |-> Fmt2(distance)]

HeightViolationS(actual, allowed) ==
    [kind |-> "height", actual |-> Fmt2(actual), allowed |-> allowed,
     excess |-> Fmt2(actual - allowed)]

SetbackViolationS(name, actual, required) ==
    [kind |-> "setback", name |-> name, actual |-> Fmt2(actual), required |-> required,
     missing |-> Fmt2(required - actual)]

FarViolationS(total, plot, allowed) ==
    [kind |-> "far", far |-> FmtRatio2(total, plot), allowed |-> allowed,
     max_area |-> FmtArea2(plot, allowed)]

CoverageViolationS(footprint, plot, allowed) ==
    [kind |-> "coverage", coverage |-> FmtRatioPct1(footprint, plot),
     allowed |-> FmtThresholdPct0(allowed), max_area |-> FmtArea2(plot, allowed)]

ParkingViolationS(spaces, required, per_unit) ==
    [kind |-> "parking", spaces |-> spaces, required |-> required, per_unit |-> per_unit]

\* 1. GIS boundary validation.
BoundaryCheckS(vs, gr) ==
    IF ~gr.within_plot
    THEN Ok(Append(vs, BoundaryViolationS(gr.violation_distance_m)))
    ELSE Ok(vs)

\* 2. Height check: the rule is read unconditionally; float > None raises.
HeightCheckS(vs, dm, bl) ==
    IF "height_m" \notin DOMAIN dm THEN Exc(vs, "KeyError", "height")
    ELSE IF IsNone(bl["max_height_m"]) THEN Exc(vs, "TypeError", "height")
    ELSE LET actual == dm["height_m"]
             allowed == Val(bl["max_height_m"])
         IN  IF actual > allowed
             THEN Ok(Append(vs, HeightViolationS(actual, allowed)))
             ELSE Ok(vs)

\* A faulty check_setback: a setback exactly at the minimum is a violation.
check_setback_NonStrict(vs, entry, dm, bl) ==
    IF entry[3] \notin DOMAIN dm THEN Exc(vs, "KeyError", entry[1])
    ELSE IF IsNone(bl[entry[2]]) THEN Exc(vs, "TypeError", entry[1])
    ELSE IF dm[entry[3]] <= Val(bl[entry[2]])
         THEN Ok(Append(vs, [kind |-> "setback", name |-> entry[1],
                             actual |-> Fmt2(dm[entry[3]]), required |-> Val(bl[entry[2]]),
                             missing |-> Fmt2(Val(bl[entry[2]]) - dm[entry[3]])]))
         ELSE Ok(vs)

\* 3. check_setback(name, dxf_metrics[metric_key], by_laws[rule_key]).
check_setback(vs, entry, dm, bl) ==
    LET name == entry[1]
        rule_key == entry[2]
        metric_key == entry[3]
    IN  IF metric_key \notin DOMAIN dm THEN Exc(vs, "KeyError", name)
        ELSE IF IsNone(bl[rule_key]) THEN Exc(vs, "TypeError", name)
        ELSE LET actual == dm[metric_key]
                 required == Val(bl[rule_key])
             IN  IF actual < required
                 THEN Ok(Append(vs, SetbackViolationS(name, actual, required)))
                 ELSE Ok(vs)

\* The four check_setback calls in order (the same names and keys as the
\* list of ComplianceValidator._check_setbacks).
RECURSIVE SetbackCallsS(_, _, _, _)
SetbackCallsS(i, vs, dm, bl) ==
    IF i > Len(setbacks) THEN Ok(vs)
    ELSE LET r == check_setback(vs, setbacks[i], dm, bl)
         IN  IF r.exc # "" THEN r
             ELSE SetbackCallsS(i + 1, r.violations, dm, bl)

\* 4. FAR: the quotient is computed unconditionally; a zero plot area raises.
FarCheckS(vs, dm, gr, bl) ==
    IF "total_area_m2" \notin DOMAIN dm THEN Exc(vs, "KeyError", "far")
    ELSE IF gr.plot_area_m2 = 0 THEN Exc(vs, "ZeroDivisionError", "far")
    ELSE IF IsNone(bl["max_far"]) THEN Exc(vs, "TypeError", "far")
    ELSE LET total == dm["total_area_m2"]
             plot == gr.plot_area_m2
             allowed == Val(bl["max_far"])
         IN  IF total * 1000 > allowed * plot
             THEN Ok(Append(vs, FarViolationS(total, plot, allowed)))
             ELSE Ok(vs)

\* 5. Ground coverage.
CoverageCheckS(vs, dm, gr, bl) ==
    IF "footprint_area_m2" \notin DOMAIN dm THEN Exc(vs, "KeyError", "coverage")
    ELSE IF gr.plot_area_m2 = 0 THEN Exc(vs, "ZeroDivisionError", "coverage")
    ELSE IF IsNone(bl["max_coverage"]) THEN Exc(vs, "TypeError", "coverage")
    ELSE LET footprint == dm["footprint_area_m2"]
             plot == gr.plot_area_m2
             allowed == Val(bl["max_coverage"])
         IN  IF footprint * 1000 > allowed * plot
             THEN Ok(Append(vs, CoverageViolationS(footprint, plot, allowed)))
             ELSE Ok(vs)

\* 6. Special cases: parking, only when by_laws.get("min_parking_spaces", 0) > 0.
ParkingCheckS(vs, dm, bl) ==
    IF "min_parking_spaces" \notin DOMAIN bl THEN Ok(vs)
    ELSE IF IsNone(bl["min_parking_spaces"]) THEN Exc(vs, "TypeError", "parking")
    ELSE IF ~(Val(bl["min_parking_spaces"]) > 0) THEN Ok(vs)
    ELSE IF "total_area_m2" \notin DOMAIN dm \/ "parking_area_per_unit" \notin DOMAIN bl
         THEN Exc(vs, "KeyError", "parking")
    ELSE IF IsNone(bl["parking_area_per_unit"]) THEN Exc(vs, "TypeError", "parking")
    ELSE IF Val(bl["parking_area_per_unit"]) = 0 THEN Exc(vs, "ZeroDivisionError", "parking")
    ELSE LET per_unit == Val(bl["parking_area_per_unit"])
             required_parking == CeilDiv(dm["total_area_m2"], per_unit)
             spaces == IF "parking_spaces" \in DOMAIN dm THEN dm["parking_spaces"] ELSE 0
         IN  IF spaces < required_parking
             THEN Ok(Append(vs, ParkingViolationS(spaces, required_parking, per_unit)))
             ELSE Ok(vs)

\* The body of check_compliance, from violations = [].
RunChecksS(dm, gr, bl) ==
    LET r1 == BoundaryCheckS(<<>>, gr)
        r2 == HeightCheckS(r1.violations, dm, bl)
        r3 == IF r2.exc # "" THEN r2 ELSE SetbackCallsS(1, r2.violations, dm, bl)
        r4 == IF r3.exc # "" THEN r3 ELSE FarCheckS(r3.violations, dm, gr, bl)
        r5 == IF r4.exc # "" THEN r4 ELSE CoverageCheckS(r4.violations, dm, gr, bl)
        r6 == IF r5.exc # "" THEN r5 ELSE ParkingCheckS(r5.violations, dm, bl)
    IN  r6

\* return (len(violations) == 0, violations)
ApprovedS(vs) == Len(vs) = 0

-----------------------------------------------------------------------------
(* The records a run is made on *)

\* Scenario A: the example of validator.py (__main__), in the model's units.
ThresholdsA ==
    [max_height_m |-> 15000, min_setback_front_m |-> 5000, min_setback_rear_m |-> 3000,
     min_setback_side_m |-> 2000, max_far |-> 2000, max_coverage |-> 400]

MetricsA ==
    [height_m |-> 16500, setback_front_m |-> 4800, setback_rear_m |-> 3200,
     setback_left_m |-> 1900, setback_right_m |-> 2100,
     footprint_area_m2 |-> 450, total_area_m2 |-> 2700]

GisA == [within_plot |-> TRUE, plot_area_m2 |-> 1200, violation_distance_m |-> 0]

ParkingLawsA == [parking_area_per_unit |-> Some(300), min_parking_spaces |-> Some(1)]

ParkingSpacesA == [parking_spaces |-> 8]

\* The six rule keys of PDFDataExtractor.extract_by_laws.
RuleKeys == DOMAIN ThresholdsA

\* The seven metric keys of DXFDataExtractor.parse_floor_plan.
MetricKeys == DOMAIN MetricsA

\* The values a by-law takes: not stated, zero, the threshold of Scenario A.
RuleValues(k) == {None, Some(0), Some(ThresholdsA[k])}

\* The values a metric takes around the threshold of Scenario A: below it,
\* equal to it, above it (height also just above it).
MetricValues ==
    [height_m |-> {14250, 15000, 15004, 16500},
     setback_front_m |-> {4800, 5000, 5200},
     setback_rear_m |-> {2750, 3000, 3200},
     setback_left_m |-> {1900, 2000, 2100},
     setback_right_m |-> {1900, 2000, 2100},
     footprint_area_m2 |-> {450, 480, 510},
     total_area_m2 |-> {2100, 2400, 2700}]

\* (within_plot, violation_distance_m) as ShapefileValidator.validate_plot
\* sets them: the distance is 0.0 when the footprint is within the plot.
Boundaries == {<<TRUE, 0>>, <<FALSE, 0>>, <<FALSE, 3700>>}

PlotAreas == {0, 1200, 1300}

\* The by-laws the PDF extractor returns when it found exactly the rules fr
\* with the thresholds of Scenario A: every other key is None.
LawsOf(fr) == [k \in RuleKeys |-> IF k \in fr THEN Some(ThresholdsA[k]) ELSE None]

\* The restriction of a dict to some of its keys.
Restrict(f, keys) == [k \in DOMAIN f \cap keys |-> f[k]]

Args(bl, dm, gr, fr) ==
    [by_laws |-> bl, dxf_metrics |-> dm, gis_result |-> gr, found_rules |-> fr]

\* Scenario B of the specification: Scenario A with the height and the
\* front setback exactly at their thresholds.
MetricsB == [MetricsA EXCEPT !.height_m = 15000, !.setback_front_m = 5000]

\* Every metric exactly at the threshold of its rule (on the plot of GisA).
MetricsAtThreshold ==
    [height_m |-> 15000, setback_front_m |-> 5000, setback_rear_m |-> 3000,
     setback_left_m |-> 2000, setback_right_m |-> 2000,
     footprint_area_m2 |-> 480, total_area_m2 |-> 2400]

\* Every metric on the violating side of its threshold.
MetricsBeyond ==
    [height_m |-> 16500, setback_front_m |-> 4800, setback_rear_m |-> 2750,
     setback_left_m |-> 1900, setback_right_m |-> 1900,
     footprint_area_m2 |-> 510, total_area_m2 |-> 2700]

BaseMetrics == {MetricsA, MetricsB, MetricsAtThreshold, MetricsBeyond}

\* The records of the first run: one of the base metrics on the plot of
\* Scenario A, with every rule found or with no rule found.
BaseArgs ==
    {Args(LawsOf(fr), dm, GisA, fr) : <<fr, dm>> \in {RuleKeys, {}} \X BaseMetrics}

Min(S) == CHOOSE x \in S : \A y \in S : x <= y

Abs(x) == IF x < 0 THEN 0 - x ELSE x

\* In how many fields the records a differ from the nearest base: a rule
\* counts when its presence or its threshold differs; (within_plot,
\* violation_distance_m) count as one field; so do the parking by-laws.
RuleDeviations(a, fr) ==
    Cardinality({k \in RuleKeys :
                    \/ (k \in a.found_rules) # (k \in fr)
                    \/ a.by_laws[k] # (IF k \in fr THEN Some(ThresholdsA[k]) ELSE None)})

MetricDeviations(a, dm) ==
    Cardinality({k \in MetricKeys : a.dxf_metrics[k] # dm[k]})

Deviations(a) ==
    Min({RuleDeviations(a, fr) : fr \in {RuleKeys, {}}})
    + Min({MetricDeviations(a, dm) : dm \in BaseMetrics})
    + (IF a.gis_result.within_plot # GisA.within_plot
          \/ a.gis_result.violation_distance_m # GisA.violation_distance_m
       THEN 1 ELSE 0)
    + (IF a.gis_result.plot_area_m2 # GisA.plot_area_m2 THEN 1 ELSE 0)
    + (IF "min_parking_spaces" \in DOMAIN a.by_laws THEN 1 ELSE 0)
    + (IF "parking_spaces" \in DOMAIN a.dxf_metrics THEN 1 ELSE 0)

\* The records a differs from in at most one field.
OneFieldFrom(a) ==
    {a}
    \cup {[a EXCEPT !.by_laws[k] = v] : <<k, v>> \in
            UNION {{<<k, v>> : v \in RuleValues(k)} : k \in RuleKeys}}
    \cup {[a EXCEPT !.found_rules = (@ \ {k}) \cup ({k} \ @)] : k \in RuleKeys}
    \cup {[a EXCEPT !.dxf_metrics[k] = v] : <<k, v>> \in
            UNION {{<<k, v>> : v \in MetricValues[k]} : k \in MetricKeys}}
    \cup {[a EXCEPT !.gis_result.within_plot = b[1],
                    !.gis_result.violation_distance_m = b[2]] : b \in Boundaries}
    \cup {[a EXCEPT !.gis_result.plot_area_m2 = p] : p \in PlotAreas}
    \cup {[a EXCEPT !.by_laws = Restrict(@, RuleKeys) @@ ParkingLawsA],
          [a EXCEPT !.by_laws = Restrict(@, RuleKeys)]}
    \cup {[a EXCEPT !.dxf_metrics = Restrict(@, MetricKeys) @@ ParkingSpacesA],
          [a EXCEPT !.dxf_metrics = Restrict(@, MetricKeys)]}

\* MaxDeviations bounds how far the records of a run are from a base.
MaxDeviations == 1

\* The records of the next run: those of the last run changed in at most
\* one field.
NextArgs(a) == {b \in OneFieldFrom(a) : Deviations(b) <= MaxDeviations}

\* The records the last call was made on.
CurrentArgs == Args(by_laws, dxf_metrics, gis_result, found_rules)

-----------------------------------------------------------------------------
(* The state machine *)

\* The threads of the concurrent calls and the validators they call.
Threads == {1, 2}

Validators == {1, 2}

\* No thread is calling.
NoThreads ==
    /\ pc = [t \in Threads |-> "idle"]
    /\ targs = [t \in Threads |-> <<>>]
    /\ self = [t \in Threads |-> t]
    /\ inst = [v \in Validators |-> [violations |-> 2 + v, compliant |-> TRUE]]
    /\ lists = [i \in 1..4 |-> <<>>]
    /\ tret = [t \in Threads |-> NoCall]

\* No pipeline is running.
NoPipeline ==
    /\ program = "none"
    /\ env = <<>>
    /\ ppc = "off"
    /\ locals = <<>>
    /\ trace = <<>>
    /\ pexc = NoCall
    /\ pret = NoCall
    /\ reported = ""
    /\ exit_code = None

\* PDFDataExtractor.__init__, and no call on it yet.
NoPdf ==
    /\ pdf_found_rules = {}
    /\ pdf_call = NoCall
    /\ pdf_ret = NoCall

\* No drawing has been parsed.
NoDxf ==
    /\ dxf_file = NoCall
    /\ dxf_ret = NoCall

\* ComplianceValidator.__init__, and the records of the first run.
Init ==
    /\ \E a \in BaseArgs :
          /\ by_laws = a.by_laws
          /\ dxf_metrics = a.dxf_metrics
          /\ gis_result = a.gis_result
          /\ found_rules = a.found_rules
    /\ violations = <<>>
    /\ compliant = TRUE
    /\ ret = NoCall
    /\ sret = NoCall
    /\ heap = [i \in ListIds |-> <<>>]
    /\ vref = 1
    /\ kept = NoKept
    /\ log = <<>>
    /\ NoThreads
    /\ NoPipeline
    /\ NoPdf
    /\ NoDxf

\* ComplianceValidator.check_compliance(by_laws, dxf_metrics, gis_result,
\* found_rules) on one validator: self.violations is bound to a new list,
\* the four checks append to it, self.compliant is set and
\* (self.compliant, self.violations) is returned: the returned list is the
\* very object self.violations is bound to.  An exception leaves
\* self.violations as it stands and self.compliant as the earlier call left
\* it.
check_compliance(a) ==
    LET r == RunChecks(a.by_laws, a.dxf_metrics, a.gis_result, a.found_rules)
        z == ResetViolations
    IN  /\ vref' = z.ref
        /\ heap' = [z.heap EXCEPT ![z.ref] = r.violations]
        /\ kept' = kept
        /\ log' = LogOfCall(a.by_laws, a.dxf_metrics, a.gis_result, a.found_rules)
        /\ UNCHANGED <<concvars, pipevars, extvars>>
        /\ by_laws' = a.by_laws
        /\ dxf_metrics' = a.dxf_metrics
        /\ gis_result' = a.gis_result
        /\ found_rules' = a.found_rules
        /\ violations' = r.violations
        /\ compliant' = IF r.exc = "" THEN Compliant(r.violations) ELSE compliant
        /\ ret' = IF r.exc = ""
                  THEN Returned(Compliant(r.violations), r.violations)
                  ELSE Raised(r.exc, r.at)
        /\ sret' = NoCall

\* validator.check_compliance(dxf_metrics, gis_result, by_laws) on the
\* records of the run: a function, it keeps nothing.
check_complianceS ==
    LET r == RunChecksS(dxf_metrics, gis_result, by_laws)
    IN  /\ sret' = IF r.exc = ""
                   THEN Returned(ApprovedS(r.violations), r.violations)
                   ELSE Raised(r.exc, r.at)
        /\ UNCHANGED <<by_laws, dxf_metrics, gis_result, found_rules,
                       violations, compliant, ret, heap, vref, kept, log>>
        /\ UNCHANGED <<concvars, pipevars, extvars>>

Next ==
    \/ \E a \in NextArgs(CurrentArgs) : check_compliance(a)
    \/ check_complianceS

Spec == Init /\ [][Next]_vars

-----------------------------------------------------------------------------
(* Concurrent calls *)

\* No single caller is at work: its variables stay as they are here.
NoCaller ==
    /\ by_laws = LawsOf({})
    /\ dxf_metrics = MetricsA
    /\ gis_result = GisA
    /\ found_rules = {}
    /\ violations = <<>>
    /\ compliant = TRUE
    /\ ret = NoCall
    /\ sret = NoCall
    /\ heap = [i \in ListIds |-> <<>>]
    /\ vref = 1
    /\ kept = NoKept
    /\ log = <<>>

\* The records of the concurrent calls: Scenario A, a compliant plan, and
\* records on which the front-setback check raises.
ConcArgs ==
    {Args(LawsOf(RuleKeys), MetricsA, GisA, RuleKeys),
     Args(LawsOf(RuleKeys), MetricsAtThreshold, GisA, RuleKeys),
     Args(LawsOf({"max_height_m"}), MetricsA, GisA, RuleKeys)}

\* Two threads, each about to call check_compliance once with records of
\* its own, on two validators or both on the same one.  Every validator is
\* as __init__ leaves it, with a list of its own.
InitConc ==
    /\ NoCaller
    /\ NoPipeline
    /\ NoPdf
    /\ NoDxf
    /\ pc = [t \in Threads |-> "reset"]
    /\ targs \in [Threads -> ConcArgs]
    /\ self \in {[t \in Threads |-> t], [t \in Threads |-> 1]}
    /\ inst = [v \in Validators |-> [violations |-> 2 + v, compliant |-> TRUE]]
    /\ lists = [i \in 1..4 |-> <<>>]
    /\ tret = [t \in Threads |-> NoCall]

\* The list self.violations of thread t's validator is bound to right now.
ListOf(t) == inst[self[t]].violations

\* A check of thread t has run on the list its validator is bound to at
\* that moment: r is what the check made of the list.  An exception ends
\* the call.
CheckStep(t, r, next) ==
    /\ lists' = [lists EXCEPT ![ListOf(t)] = r.violations]
    /\ IF r.exc = ""
       THEN pc' = [pc EXCEPT ![t] = next] /\ tret' = tret
       ELSE pc' = [pc EXCEPT ![t] = "done"]
            /\ tret' = [tret EXCEPT ![t] = Raised(r.exc, r.at)]
    /\ UNCHANGED <<targs, self, inst>>
    /\ UNCHANGED <<seqvars, pipevars, extvars>>

\* self.violations = [] by thread t: list t is the new object.
c_reset(t) ==
    /\ pc[t] = "reset"
    /\ inst' = [inst EXCEPT ![self[t]].violations = t]
    /\ lists' = [lists EXCEPT ![t] = <<>>]
    /\ pc' = [pc EXCEPT ![t] = "height"]
    /\ UNCHANGED <<targs, self, tret>>
    /\ UNCHANGED <<seqvars, pipevars, extvars>>

\* self._check_height(by_laws, dxf_metrics, found_rules) by thread t.
c_height(t) ==
    /\ pc[t] = "height"
    /\ CheckStep(t, _check_height(lists[ListOf(t)], targs[t].by_laws, targs[t].dxf_metrics,
                                  targs[t].found_rules), "setbacks")

\* self._check_setbacks(by_laws, dxf_metrics, found_rules) by thread t.
c_setbacks(t) ==
    /\ pc[t] = "setbacks"
    /\ CheckStep(t, _check_setbacks(lists[ListOf(t)], targs[t].by_laws,
                                    targs[t].dxf_metrics, targs[t].found_rules), "far")

\* self._check_far(by_laws, dxf_metrics, gis_result, found_rules) by thread t.
c_far(t) ==
    /\ pc[t] = "far"
    /\ CheckStep(t, _check_far(lists[ListOf(t)], targs[t].by_laws, targs[t].dxf_metrics,
                               targs[t].gis_result, targs[t].found_rules), "coverage")

\* self._check_coverage(by_laws, dxf_metrics, gis_result, found_rules) by
\* thread t.
c_coverage(t) ==
    /\ pc[t] = "coverage"
    /\ CheckStep(t, _check_coverage(lists[ListOf(t)], targs[t].by_laws,
                                    targs[t].dxf_metrics, targs[t].gis_result,
                                    targs[t].found_rules), "compliant")

\* self.compliant = len(self.violations) == 0 by thread t.
c_compliant(t) ==
    /\ pc[t] = "compliant"
    /\ inst' = [inst EXCEPT ![self[t]].compliant = Compliant(lists[ListOf(t)])]
    /\ pc' = [pc EXCEPT ![t] = "return"]
    /\ UNCHANGED <<targs, self, lists, tret>>
    /\ UNCHANGED <<seqvars, pipevars, extvars>>

\* return self.compliant, self.violations by thread t: the tuple as the
\* caller sees it when the call returns.
c_return(t) ==
    /\ pc[t] = "return"
    /\ tret' = [tret EXCEPT ![t] = Returned(inst[self[t]].compliant, lists[ListOf(t)])]
    /\ pc' = [pc EXCEPT ![t] = "done"]
    /\ UNCHANGED <<targs, self, inst, lists>>
    /\ UNCHANGED <<seqvars, pipevars, extvars>>

NextConc ==
    \/ \E t \in Threads : c_reset(t)
    \/ \E t \in Threads : c_height(t)
    \/ \E t \in Threads : c_setbacks(t)
    \/ \E t \in Threads : c_far(t)
    \/ \E t \in Threads : c_coverage(t)
    \/ \E t \in Threads : c_compliant(t)
    \/ \E t \in Threads : c_return(t)

SpecConc == InitConc /\ [][NextConc]_vars

-----------------------------------------------------------------------------
(* The pipeline: main and run_pipeline of main.py and of main_bkp_1.py *)

\* check_compliance of main_bkp_1.py: the comparison of one setback under
\* a rule that was found.
BkpSetback(vs, name, rule_key, metric_key, bl, dm) ==
    IF metric_key \notin DOMAIN dm THEN Exc(vs, "KeyError", name)
    ELSE IF IsNone(bl[rule_key]) THEN Exc(vs, "TypeError", name)
    ELSE IF dm[metric_key] < Val(bl[rule_key])
         THEN Ok(Append(vs, SetbackViolation(name, dm[metric_key], Val(bl[rule_key]))))
         ELSE Ok(vs)

\* BuildingComplianceChecker.check_compliance (main_bkp_1.py): the checks
\* are written out in the method, on a local list violations.
BkpChecks(bl, dm, gr, fr) ==
    LET height(vs) ==
            IF "max_height_m" \notin fr THEN Ok(vs)
            ELSE IF "height_m" \notin DOMAIN dm THEN Exc(vs, "KeyError", "height")
            ELSE IF IsNone(bl["max_height_m"]) THEN Exc(vs, "TypeError", "height")
            ELSE IF dm["height_m"] > Val(bl["max_height_m"])
                 THEN Ok(Append(vs, HeightViolation(dm["height_m"], Val(bl["max_height_m"]))))
                 ELSE Ok(vs)
        front(vs) ==
            IF "min_setback_front_m" \notin fr THEN Ok(vs)
            ELSE BkpSetback(vs, "front", "min_setback_front_m", "setback_front_m", bl, dm)
        rear(vs) ==
            IF "min_setback_rear_m" \notin fr THEN Ok(vs)
            ELSE BkpSetback(vs, "rear", "min_setback_rear_m", "setback_rear_m", bl, dm)
        left(vs) ==
            IF "min_setback_side_m" \notin fr THEN Ok(vs)
            ELSE BkpSetback(vs, "left side", "min_setback_side_m", "setback_left_m", bl, dm)
        right(vs) ==
            IF "min_setback_side_m" \notin fr THEN Ok(vs)
            ELSE BkpSetback(vs, "right side", "min_setback_side_m", "setback_right_m", bl, dm)
        far(vs) ==
            IF "max_far" \notin fr THEN Ok(vs)
            ELSE IF "plot_area_m2" \notin DOMAIN gr THEN Exc(vs, "KeyError", "far")
            ELSE IF ~(gr.plot_area_m2 > 0) THEN Ok(vs)
            ELSE IF "total_area_m2" \notin DOMAIN dm THEN Exc(vs, "KeyError", "far")
            ELSE IF IsNone(bl["max_far"]) THEN Exc(vs, "TypeError", "far")
            ELSE IF dm["total_area_m2"] * 1000 > Val(bl["max_far"]) * gr.plot_area_m2
                 THEN Ok(Append(vs, FarViolation(dm["total_area_m2"], gr.plot_area_m2,
                                                 Val(bl["max_far"]))))
                 ELSE Ok(vs)
        coverage(vs) ==
            IF "max_coverage" \notin fr THEN Ok(vs)
            ELSE IF "plot_area_m2" \notin DOMAIN gr THEN Exc(vs, "KeyError", "coverage")
            ELSE IF ~(gr.plot_area_m2 > 0) THEN Ok(vs)
            ELSE IF "footprint_area_m2" \notin DOMAIN dm THEN Exc(vs, "KeyError", "coverage")
            ELSE IF IsNone(bl["max_coverage"]) THEN Exc(vs, "TypeError", "coverage")
            ELSE IF dm["footprint_area_m2"] * 1000 > Val(bl["max_coverage"]) * gr.plot_area_m2
                 THEN Ok(Append(vs, CoverageViolation(dm["footprint_area_m2"],
                                                      gr.plot_area_m2,
                                                      Val(bl["max_coverage"]))))
                 ELSE Ok(vs)
        r1 == height(<<>>)
        r2 == IF r1.exc # "" THEN r1 ELSE front(r1.violations)
        r3 == IF r2.exc # "" THEN r2 ELSE rear(r2.violations)
        r4 == IF r3.exc # "" THEN r3 ELSE left(r3.violations)
        r5 == IF r4.exc # "" THEN r4 ELSE right(r4.violations)
        r6 == IF r5.exc # "" THEN r5 ELSE far(r5.violations)
        r7 == IF r6.exc # "" THEN r6 ELSE coverage(r6.violations)
    IN  r7

\* What the call of an extractor does: it raises or it returns a value.
Raises(exc) == [status |-> "raises", exc |-> exc]

Returns(v) == [status |-> "returns", value |-> v]

\* The three input files, in the order run_pipeline takes them.
Files == <<"pdf", "dxf", "shp">>

\* The files on disk: all present, or one of them missing or empty.
FileConditions ==
    {f \in [{"pdf", "dxf", "shp"} -> {"present", "missing", "empty"}] :
        Cardinality({x \in DOMAIN f : f[x] # "present"}) <= 1}

\* extract_by_laws with get_found_rules: every rule found, none, or the FAR
\* rule alone.
PdfOutcomes ==
    {Raises("PDFSyntaxError")}
        \cup {Returns([by_laws |-> LawsOf(fr), found_rules |-> fr]) :
                 fr \in {RuleKeys, {}, {"max_far"}}}

\* parse_floor_plan: Scenario A, a compliant plan, and records of a
\* collaborator that leaves a metric out.
DxfOutcomes ==
    {Raises("ValueError")}
        \cup {Returns(dm) :
                 dm \in {MetricsA, MetricsAtThreshold,
                         Restrict(MetricsAtThreshold, MetricKeys \ {"total_area_m2"}),
                         Restrict(MetricsAtThreshold, MetricKeys \ {"setback_rear_m"})}}

\* validate_plot: the plot of Scenario A, a plot of area 0, and a record of
\* a collaborator that leaves the plot area out.
ShpOutcomes ==
    {Raises("DriverError")}
        \cup {Returns(gr) :
                 gr \in {GisA, [GisA EXCEPT !.plot_area_m2 = 0],
                         [within_plot |-> TRUE, violation_distance_m |-> 0]}}

\* main is about to run in a new process.
InitPipeline ==
    /\ NoCaller
    /\ NoThreads
    /\ NoPdf
    /\ NoDxf
    /\ program \in {"main", "main_bkp_1"}
    /\ env \in [files : FileConditions, pdf : PdfOutcomes, dxf : DxfOutcomes,
                shp : ShpOutcomes]
    /\ ppc = "main"
    /\ locals = <<>>
    /\ trace = <<>>
    /\ pexc = NoCall
    /\ pret = NoCall
    /\ reported = ""
    /\ exit_code = None

\* The first of the files, in order, that is in the condition c.
FirstFile(c) ==
    LET S == {i \in 1..Len(Files) : env.files[Files[i]] = c}
    IN  IF S = {} THEN 0 ELSE Min(S)

\* A phase has been invoked and has ended so.
Phase(name, result) == [phase |-> name, result |-> result]

\* An exception e leaves the try block of run_pipeline.
Fails(e) ==
    /\ pexc' = e
    /\ ppc' = "pipeline_except"

\* main of main.py up to the call of run_pipeline: every input file must
\* exist, or FileNotFoundError is raised in main itself.
main_validate_files ==
    /\ program = "main" /\ ppc = "main"
    /\ IF FirstFile("missing") # 0
       THEN pexc' = Raised("FileNotFoundError", "main") /\ ppc' = "main_except"
       ELSE pexc' = pexc /\ ppc' = "phase1"
    /\ UNCHANGED <<program, env, locals, trace, pret, reported, exit_code>>
    /\ UNCHANGED <<seqvars, concvars, extvars>>

\* main of main_bkp_1.py calls run_pipeline at once; run_pipeline validates
\* its inputs inside its try block: each path in turn must exist and must
\* not be empty.
bkp_validate_inputs ==
    /\ program = "main_bkp_1" /\ ppc = "main"
    /\ LET m == FirstFile("missing")
           e == FirstFile("empty")
       IN  IF m # 0 /\ (e = 0 \/ m <= e)
           THEN Fails(Raised("FileNotFoundError", "run_pipeline"))
           ELSE IF e # 0
           THEN Fails(Raised("ValueError", "run_pipeline"))
           ELSE pexc' = pexc /\ ppc' = "phase1"
    /\ UNCHANGED <<program, env, locals, trace, pret, reported, exit_code>>
    /\ UNCHANGED <<seqvars, concvars, extvars>>

\* An extractor is called: it raises, or run_pipeline assigns what it
\* returns and goes on to the phase next.
ExtractorPhase(name, outcome, assigned, next) ==
    /\ IF outcome.status = "raises"
       THEN /\ trace' = Append(trace, Phase(name, "raised"))
            /\ Fails(Raised(outcome.exc, name))
            /\ locals' = locals
       ELSE /\ trace' = Append(trace, Phase(name, "returned"))
            /\ locals' = assigned @@ locals
            /\ pexc' = pexc
            /\ ppc' = next
    /\ UNCHANGED <<program, env, pret, reported, exit_code>>
    /\ UNCHANGED <<seqvars, concvars, extvars>>

\* Phase 1: by_laws = extract_by_laws(pdf_path), and the rules found.
extract_by_laws ==
    /\ ppc = "phase1"
    /\ ExtractorPhase("extract_by_laws", env.pdf,
                      IF env.pdf.status = "raises" THEN <<>>
                      ELSE ("by_laws" :> env.pdf.value.by_laws)
                               @@ ("found_rules" :> env.pdf.value.found_rules),
                      "phase2")

\* Phase 2: dxf_metrics = parse_floor_plan(dxf_path).
parse_floor_plan ==
    /\ ppc = "phase2"
    /\ ExtractorPhase("parse_floor_plan", env.dxf,
                      IF env.dxf.status = "raises" THEN <<>>
                      ELSE "dxf_metrics" :> env.dxf.value,
                      "phase3")

\* Phase 3: gis_result = validate_plot(shp_path, dxf_metrics).
validate_plot ==
    /\ ppc = "phase3"
    /\ ExtractorPhase("validate_plot", env.shp,
                      IF env.shp.status = "raises" THEN <<>>
                      ELSE "gis_result" :> env.shp.value,
                      "phase4")

\* The records run_pipeline passes to the compliance check.
PipelineArgs ==
    Args(locals["by_laws"], locals["dxf_metrics"], locals["gis_result"],
         locals["found_rules"])

\* Phase 4 of main.py: check_compliance on the pipeline's validator, which
\* no one has called before, then print_compliance_summary, which prints
\* APPROVED or REJECTED from self.compliant, then the return of the tuple.
compliance_phase ==
    /\ program = "main" /\ ppc = "phase4"
    /\ LET r == RunChecks(PipelineArgs.by_laws, PipelineArgs.dxf_metrics,
                          PipelineArgs.gis_result, PipelineArgs.found_rules)
       IN  IF r.exc # ""
           THEN /\ trace' = Append(trace, Phase("check_compliance", "raised"))
                /\ Fails(Raised(r.exc, r.at))
                /\ UNCHANGED <<pret, reported>>
           ELSE /\ trace' = Append(trace, Phase("check_compliance", "returned"))
                /\ reported' = IF Compliant(r.violations) THEN "APPROVED" ELSE "REJECTED"
                /\ pret' = Returned(Compliant(r.violations), r.violations)
                /\ ppc' = "returned"
                /\ pexc' = pexc
    /\ UNCHANGED <<program, env, locals, exit_code>>
    /\ UNCHANGED <<seqvars, concvars, extvars>>

\* The fields generate_report of main_bkp_1.py formats.
ReportReads(dm, gr) ==
    /\ "plot_area_m2" \in DOMAIN gr
    /\ {"footprint_area_m2", "total_area_m2", "height_m"} \subseteq DOMAIN dm

\* Phase 4 of main_bkp_1.py: check_compliance, then generate_report, which
\* builds the whole report (status line and metrics) before it prints it,
\* then the return of the tuple.
bkp_compliance_phase ==
    /\ program = "main_bkp_1" /\ ppc = "phase4"
    /\ LET r == BkpChecks(PipelineArgs.by_laws, PipelineArgs.dxf_metrics,
                          PipelineArgs.gis_result, PipelineArgs.found_rules)
       IN  IF r.exc # ""
           THEN /\ trace' = Append(trace, Phase("check_compliance", "raised"))
                /\ Fails(Raised(r.exc, r.at))
                /\ UNCHANGED <<pret, reported>>
           ELSE /\ trace' = Append(trace, Phase("check_compliance", "returned"))
                /\ IF ReportReads(PipelineArgs.dxf_metrics, PipelineArgs.gis_result)
                   THEN /\ reported' = IF Len(r.violations) = 0
                                       THEN "APPROVED" ELSE "REJECTED"
                        /\ pret' = Returned(Len(r.violations) = 0, r.violations)
                        /\ ppc' = "returned"
                        /\ pexc' = pexc
                   ELSE /\ Fails(Raised("KeyError", "generate_report"))
                        /\ UNCHANGED <<pret, reported>>
    /\ UNCHANGED <<program, env, locals, exit_code>>
    /\ UNCHANGED <<seqvars, concvars, extvars>>

\* A faulty handler: the exception is logged and a rejection returned.
Reraised_Swallowed(e) == Returned(FALSE, <<>>)

\* The raise of the except block of run_pipeline: the caught exception
\* leaves run_pipeline.
Reraised(e) == e

\* except Exception of run_pipeline: log the failure and raise again.
run_pipeline_except ==
    /\ ppc = "pipeline_except"
    /\ pret' = Reraised(pexc)
    /\ ppc' = IF pret'.status = "raised" THEN "main_except" ELSE "returned"
    /\ UNCHANGED <<program, env, locals, trace, pexc, reported, exit_code>>
    /\ UNCHANGED <<seqvars, concvars, extvars>>

\* A faulty exit code: 0 whatever the verdict.
ExitCode_AlwaysZero(approved) == 0

\* 0 if approved else 1
ExitCode(approved) == IF approved THEN 0 ELSE 1

\* sys.exit(0 if approved else 1) of main, after run_pipeline has returned.
\* (SystemExit is not an Exception: the except block of main lets it pass.)
main_exit ==
    /\ ppc = "returned"
    /\ exit_code' = Some(ExitCode(pret.approved))
    /\ ppc' = "exit"
    /\ UNCHANGED <<program, env, locals, trace, pexc, pret, reported>>
    /\ UNCHANGED <<seqvars, concvars, extvars>>

\* except Exception of main: log the failure and sys.exit(1).
main_except ==
    /\ ppc = "main_except"
    /\ exit_code' = Some(1)
    /\ ppc' = "exit"
    /\ UNCHANGED <<program, env, locals, trace, pexc, pret, reported>>
    /\ UNCHANGED <<seqvars, concvars, extvars>>

NextPipeline ==
    \/ main_validate_files
    \/ bkp_validate_inputs
    \/ extract_by_laws
    \/ parse_floor_plan
    \/ validate_plot
    \/ compliance_phase
    \/ bkp_compliance_phase
    \/ run_pipeline_except
    \/ main_exit
    \/ main_except

SpecPipeline == InitPipeline /\ [][NextPipeline]_vars

-----------------------------------------------------------------------------
(* Strings of the PDF extractor (src/src/modules/get_data_from_pdf.py) *)

\* A Python str is the sequence of its characters.
UpperCase ==
    <<"A", "B", "C", "D", "E", "F", "G", "H", "I", "J", "K", "L", "M",
      "N", "O", "P", "Q", "R", "S", "T", "U", "V", "W", "X", "Y", "Z">>

LowerCase ==
    <<"a", "b", "c", "d", "e", "f", "g", "h", "i", "j", "k", "l", "m",
      "n", "o", "p", "q", "r", "s", "t", "u", "v", "w", "x", "y", "z">>

Digits == <<"0", "1", "2", "3", "4", "5", "6", "7", "8", "9">>

IsDigit(c) == \E i \in 1..Len(Digits) : Digits[i] = c

DigitValue(c) == (CHOOSE i \in 1..Len(Digits) : Digits[i] = c) - 1

\* str.lower()
lower(s) ==
    [i \in 1..Len(s) |->
        IF \E k \in 1..Len(UpperCase) : UpperCase[k] = s[i]
        THEN LowerCase[CHOOSE k \in 1..Len(UpperCase) : UpperCase[k] = s[i]]
        ELSE s[i]]

\* sub occurs in s at the offset k
OccursAt(sub, s, k) ==
    /\ k + Len(sub) <= Len(s)
    /\ \A i \in 1..Len(sub) : s[k + i] = sub[i]

\* sub in s
Contains(sub, s) == \E k \in 0..Len(s) : OccursAt(sub, s, k)

\* str.strip(): the blanks at both ends removed (the strings of the model
\* hold no other white space)
strip(s) ==
    LET inner == {i \in 1..Len(s) : s[i] # " "}
    IN  IF inner = {} THEN <<>>
        ELSE SubSeq(s, Min(inner), CHOOSE i \in inner : \A j \in inner : j <= i)

\* The integer the digits ds spell.
RECURSIVE IntOf(_)
IntOf(ds) ==
    IF ds = <<>> THEN 0
    ELSE 10 * IntOf(SubSeq(ds, 1, Len(ds) - 1)) + DigitValue(ds[Len(ds)])

\* float(t) of a string t of digits and points, in thousandths; None
\* where float raises ValueError (no digit, or more than one point).
\* Decimals beyond the third are cut off.
float(t) ==
    LET points == {i \in 1..Len(t) : t[i] = "."}
        p == IF points = {} THEN Len(t) + 1 ELSE Min(points)
        whole == SubSeq(t, 1, p - 1)
        frac == SubSeq(t, p + 1, Len(t))
        frac3 == SubSeq(frac \o <<"0", "0", "0">>, 1, 3)
    IN  IF Cardinality(points) > 1 \/ Len(t) - Cardinality(points) = 0 THEN None
        ELSE Some(1000 * IntOf(whole) + IntOf(frac3))

-----------------------------------------------------------------------------
(* PDFDataExtractor (src/src/modules/get_data_from_pdf.py) *)

\* self.rule_mappings, in the order of the dict: (keyword, rule_key).
rule_mappings ==
    << <<<<"f", "r", "o", "n", "t", " ", "s", "e", "t", "b", "a", "c", "k">>, "min_setback_front_m">>,
       <<<<"r", "e", "a", "r", " ", "s", "e", "t", "b", "a", "c", "k">>, "min_setback_rear_m">>,
       <<<<"s", "i", "d", "e", " ", "s", "e", "t", "b", "a", "c", "k">>, "min_setback_side_m">>,
       <<<<"h", "e", "i", "g", "h", "t">>, "max_height_m">>,
       <<<<"f", "a", "r">>, "max_far">>,
       <<<<"c", "o", "v", "e", "r", "a", "g", "e">>, "max_coverage">> >>

\* The rule set extract_by_laws starts from: every rule None.
NoRules == [k \in RuleKeys |-> None]

\* What a method has made of the rule set and of self.found_rules.
Extracted(rules, found) == [rules |-> rules, found_rules |-> found]

\* _extract_numeric_value: everything but digits and points is removed,
\* the rest is read as a float; None if nothing is left or float raises.
_extract_numeric_value(text) ==
    LET cleaned == SelectSeq(text, LAMBDA c : IsDigit(c) \/ c = ".")
    IN  IF cleaned = <<>> THEN None ELSE float(cleaned)

\* _process_table_row: the first keyword of rule_mappings that occurs in
\* the lower-cased first cell names the rule; the third cell holds the
\* value; a coverage is divided by 100 if the units cell holds "%".  The
\* loop breaks at the first keyword that occurs, with or without a value.
\* An exception (a row of fewer than three cells) is logged and swallowed.
_process_table_row(row, rules, found) ==
    IF Len(row) < 3 THEN Extracted(rules, found)
    ELSE LET rule_name == lower(strip(row[1]))
             value_str == strip(row[3])
             units == IF Len(row) > 3 THEN lower(strip(row[4])) ELSE <<>>
             hits == {i \in 1..Len(rule_mappings) : Contains(rule_mappings[i][1], rule_name)}
             rule_key == rule_mappings[Min(hits)][2]
             value == _extract_numeric_value(value_str)
         IN  IF hits = {} \/ IsNone(value) THEN Extracted(rules, found)
             ELSE Extracted([rules EXCEPT ![rule_key] =
                                IF Contains(<<"%">>, units) /\ rule_key = "max_coverage"
                                THEN Some(Val(value) \div 100) ELSE value],
                            found \cup {rule_key})

\* The patterns of _parse_text, in the order of the dict: the rule, the
\* words of the keyword (\s* between them), and what must follow the
\* number: "m" (re.IGNORECASE: or "M") after optional blanks, nothing, or
\* "%" at once.
patterns ==
    << [rule_key |-> "min_setback_front_m", words |-> <<<<"f", "r", "o", "n", "t">>, <<"s", "e", "t", "b", "a", "c", "k">>>>,
        blanks |-> TRUE, suffix |-> {"m", "M"}],
       [rule_key |-> "min_setback_rear_m", words |-> <<<<"r", "e", "a", "r">>, <<"s", "e", "t", "b", "a", "c", "k">>>>,
        blanks |-> TRUE, suffix |-> {"m", "M"}],
       [rule_key |-> "min_setback_side_m", words |-> <<<<"s", "i", "d", "e">>, <<"s", "e", "t", "b", "a", "c", "k">>>>,
        blanks |-> TRUE, suffix |-> {"m", "M"}],
       [rule_key |-> "max_height_m", words |-> <<<<"h", "e", "i", "g", "h", "t">>>>, blanks |-> TRUE, suffix |-> {"m", "M"}],
       [rule_key |-> "max_far", words |-> <<<<"f", "a", "r">>>>, blanks |-> FALSE, suffix |-> {}],
       [rule_key |-> "max_coverage", words |-> <<<<"c", "o", "v", "e", "r", "a", "g", "e">>>>, blanks |-> FALSE, suffix |-> {"%"}] >>

\* The first position from j on that holds no blank (\s*).
RECURSIVE SkipBlanks(_, _)
SkipBlanks(line, j) ==
    IF j <= Len(line) /\ line[j] = " " THEN SkipBlanks(line, j + 1) ELSE j

\* The first position from j on that holds no digit (\d*).
RECURSIVE SkipDigits(_, _)
SkipDigits(line, j) ==
    IF j <= Len(line) /\ IsDigit(line[j]) THEN SkipDigits(line, j + 1) ELSE j

\* The position after the keyword whose words start at the offset k of
\* the line, 0 if they do not.
RECURSIVE KeywordEnd(_, _, _)
KeywordEnd(words, line, k) ==
    IF words = <<>> THEN k + 1
    ELSE IF ~OccursAt(words[1], line, k) THEN 0
    ELSE IF Len(words) = 1 THEN k + Len(words[1]) + 1
    ELSE KeywordEnd(Tail(words), line, SkipBlanks(line, k + Len(words[1]) + 1) - 1)

\* (\d+\.?\d*) at the position j of the line, followed, after \s* if
\* blanks is true, by a character of the suffix (by anything if the suffix
\* is empty): the position after the number, 0 if there is no such number
\* at j.
NumberEnd(line, j, blanks, suffix) ==
    IF ~(j <= Len(line) /\ IsDigit(line[j])) THEN 0
    ELSE LET a == SkipDigits(line, j)
             b == IF a <= Len(line) /\ line[a] = "." THEN SkipDigits(line, a + 1) ELSE a
             m == IF blanks THEN SkipBlanks(line, b) ELSE b
         IN  IF suffix = {} THEN b
             ELSE IF m <= Len(line) /\ line[m] \in suffix THEN b ELSE 0

\* re.search(pattern, line, re.IGNORECASE).group(1) on one line (the
\* keyword is looked for in the lower-cased line): the keyword at its
\* leftmost place, then as few characters as possible, then
\* the number; None if the line has no match.
SearchLine(pat, line) ==
    LET low == lower(line)
        starts == {k \in 0..Len(line) : KeywordEnd(pat.words, low, k) # 0}
        from == KeywordEnd(pat.words, low, Min(starts))
        numbers == {j \in from..Len(line) : NumberEnd(line, j, pat.blanks, pat.suffix) # 0}
        j0 == Min(numbers)
    IN  IF starts = {} \/ numbers = {} THEN None
        ELSE Some(SubSeq(line, j0, NumberEnd(line, j0, pat.blanks, pat.suffix) - 1))

\* re.search over the text, a sequence of lines ("." matches no line end;
\* no keyword or unit of the model's texts is split over two lines).
Search(pat, text) ==
    LET hits == {i \in 1..Len(text) : ~IsNone(SearchLine(pat, text[i]))}
    IN  IF hits = {} THEN None ELSE SearchLine(pat, text[Min(hits)])

\* One iteration of the loop of _parse_text: on a match the number is
\* stored, a coverage divided by 100, and the rule is added to
\* self.found_rules.
ParseStep(pat, text, e) ==
    LET match == Search(pat, text)
        value == Val(float(Val(match)))
    IN  IF IsNone(match) THEN e
        ELSE Extracted([e.rules EXCEPT ![pat.rule_key] =
                           IF pat.rule_key = "max_coverage"
                           THEN Some(value \div 100) ELSE Some(value)],
                       e.found_rules \cup {pat.rule_key})

\* The loop of _parse_text from the pattern i on.
RECURSIVE ParseLoop(_, _, _)
ParseLoop(i, text, e) ==
    IF i > Len(patterns) THEN e
    ELSE ParseLoop(i + 1, text, ParseStep(patterns[i], text, e))

_parse_text(text, rules, found) == ParseLoop(1, text, Extracted(rules, found))

\* The header test of extract_by_laws: len(table) > 0 and
\* "Rule Name" in table[0][0].lower().
IsRuleTable(table) ==
    /\ Len(table) > 0
    /\ Contains(<<"R", "u", "l", "e", " ", "N", "a", "m", "e">>, lower(table[1][1]))

\* The rows of a table from the row i on: a row of four cells or more goes
\* to _process_table_row.
RECURSIVE TableRows(_, _, _)
TableRows(table, i, e) ==
    IF i > Len(table) THEN e
    ELSE TableRows(table, i + 1,
                   IF Len(table[i]) >= 4
                   THEN _process_table_row(table[i], e.rules, e.found_rules)
                   ELSE e)

\* The tables of a page from the table i on: the rows after the header of
\* a table that passes the header test are processed.
RECURSIVE PageTables(_, _, _)
PageTables(tables, i, e) ==
    IF i > Len(tables) THEN e
    ELSE PageTables(tables, i + 1,
                    IF IsRuleTable(tables[i]) THEN TableRows(tables[i], 2, e) ELSE e)

\* any(rules.values()): some rule has a value that is not None and not 0.
AnyRule(rules) == \E k \in DOMAIN rules : ~IsNone(rules[k]) /\ Val(rules[k]) # 0

\* One page of extract_by_laws: its tables, and then, if no rule has a
\* value yet and the page has text, the text.
PageStep(page, e) ==
    LET t == PageTables(page.tables, 1, e)
    IN  IF ~AnyRule(t.rules) /\ page.text # <<>>
        THEN _parse_text(page.text, t.rules, t.found_rules)
        ELSE t

\* The pages of the document from the page i on.
RECURSIVE PageLoop(_, _, _)
PageLoop(pages, i, e) ==
    IF i > Len(pages) THEN e ELSE PageLoop(pages, i + 1, PageStep(pages[i], e))

\* extract_by_laws on the pages of a document, by an extractor whose
\* self.found_rules is found: the rule set starts with every rule None,
\* self.found_rules starts as the extractor holds it.
extract_by_laws_of(pages, found) == PageLoop(pages, 1, Extracted(NoRules, found))

-----------------------------------------------------------------------------
(* Documents, rows and texts the extractor is called on *)

\* A table with the header the extractor looks for.
RuleTable ==
    << <<<<"R", "u", "l", "e", " ", "N", "a", "m", "e">>, <<"T", "y", "p", "e">>, <<"V", "a", "l", "u", "e">>, <<"U", "n", "i", "t", "s">>>>,
       <<<<"B", "u", "i", "l", "d", "i", "n", "g", " ", "H", "e", "i", "g", "h", "t">>, <<"M", "a", "x", "i", "m", "u", "m">>, <<"1", "5">>, <<"m">>>>,
       <<<<"S", "i", "t", "e", " ", "C", "o", "v", "e", "r", "a", "g", "e">>, <<"M", "a", "x", "i", "m", "u", "m">>, <<"4", "0">>, <<"%">>>> >>

\* The text pdfplumber makes of the page that holds RuleTable.
RuleTableText ==
    << <<"R", "u", "l", "e", " ", "N", "a", "m", "e", " ", "T", "y", "p", "e", " ", "V", "a", "l", "u", "e", " ", "U", "n", "i", "t", "s">>,
       <<"B", "u", "i", "l", "d", "i", "n", "g", " ", "H", "e", "i", "g", "h", "t", " ", "M", "a", "x", "i", "m", "u", "m", " ", "1", "5", " ", "m">>,
       <<"S", "i", "t", "e", " ", "C", "o", "v", "e", "r", "a", "g", "e", " ", "M", "a", "x", "i", "m", "u", "m", " ", "4", "0", " ", "%">> >>

Page(tables, text) == [tables |-> tables, text |-> text]

\* The documents: a file pdfplumber cannot open, or the pages of a
\* document.
Documents ==
    { [name |-> "corrupt.pdf", readable |-> FALSE, pages |-> <<>>],
      [name |-> "scanned.pdf", readable |-> TRUE, pages |-> <<Page(<<>>, <<>>)>>],
      [name |-> "table.pdf", readable |-> TRUE,
       pages |-> <<Page(<<RuleTable>>, RuleTableText)>>],
      [name |-> "table_only.pdf", readable |-> TRUE,
       pages |-> <<Page(<<RuleTable>>, <<>>)>>],
      [name |-> "text.pdf", readable |-> TRUE,
       pages |-> <<Page(<<>>, <<<<"M", "a", "x", "i", "m", "u", "m", " ", "H", "e", "i", "g", "h", "t", ":", " ", "1", "5", " ", "m">>, <<"S", "i", "t", "e", " ", "C", "o", "v", "e", "r", "a", "g", "e", ":", " ", "4", "0", "%">>>>)>>],
      [name |-> "front.pdf", readable |-> TRUE,
       pages |-> <<Page(<<>>, <<<<"F", "r", "o", "n", "t", " ", "S", "e", "t", "b", "a", "c", "k", ":", " ", "5", " ", "m">>>>)>>],
      [name |-> "two_pages.pdf", readable |-> TRUE,
       pages |-> <<Page(<<>>, <<<<"F", "A", "R", " ", "2", ".", "5">>>>),
                   Page(<<>>, <<<<"R", "e", "a", "r", " ", "s", "e", "t", "b", "a", "c", "k", " ", "3", ".", "0", "m">>>>)>>] }

\* Table rows, each with the percentage of coverage it states, if any.
Rows ==
    { [cells |-> <<<<"S", "i", "t", "e", " ", "C", "o", "v", "e", "r", "a", "g", "e">>, <<"M", "a", "x", "i", "m", "u", "m">>, <<"4", "0">>, <<"%">>>>, percent |-> Some(40)],
      [cells |-> <<<<"S", "i", "t", "e", " ", "C", "o", "v", "e", "r", "a", "g", "e">>, <<"M", "a", "x", "i", "m", "u", "m">>, <<"4", "0", "%">>, <<>>>>, percent |-> Some(40)],
      [cells |-> <<<<"M", "a", "x", "i", "m", "u", "m", " ", "C", "o", "v", "e", "r", "a", "g", "e">>, <<"M", "a", "x", "i", "m", "u", "m">>, <<"3", "5">>, <<"p", "e", "r", "c", "e", "n", "t">>>>, percent |-> Some(35)],
      [cells |-> <<<<"B", "u", "i", "l", "d", "i", "n", "g", " ", "H", "e", "i", "g", "h", "t">>, <<"M", "a", "x", "i", "m", "u", "m">>, <<"1", "5">>, <<"m">>>>, percent |-> None],
      [cells |-> <<<<"F", "A", "R">>, <<"M", "a", "x", "i", "m", "u", "m">>, <<"2", ".", "5">>, <<"r", "a", "t", "i", "o">>>>, percent |-> None],
      [cells |-> <<<<" ", "S", "i", "d", "e", " ", "S", "e", "t", "b", "a", "c", "k", " ">>, <<"M", "i", "n", "i", "m", "u", "m">>, <<" ", "3", ".", "0", " ", "m", " ">>, <<"m">>>>, percent |-> None],
      [cells |-> <<<<"P", "a", "r", "k", "i", "n", "g">>, <<"M", "i", "n", "i", "m", "u", "m">>, <<"n", "/", "a">>, <<>>>>, percent |-> None],
      [cells |-> <<<<"H", "e", "i", "g", "h", "t">>, <<"1", "5">>>>, percent |-> None] }

\* Page texts, each with the percentage of coverage it states, if any.
Texts ==
    { [lines |-> <<<<"S", "i", "t", "e", " ", "C", "o", "v", "e", "r", "a", "g", "e", ":", " ", "4", "0", "%">>>>, percent |-> Some(40)],
      [lines |-> <<<<"M", "a", "x", "i", "m", "u", "m", " ", "c", "o", "v", "e", "r", "a", "g", "e", " ", "o", "f", " ", "t", "h", "e", " ", "p", "l", "o", "t", " ", "i", "s", " ", "3", "5", ".", "0", "%">>>>, percent |-> Some(35)],
      [lines |-> <<<<"M", "a", "x", "i", "m", "u", "m", " ", "H", "e", "i", "g", "h", "t", ":", " ", "1", "5", " ", "m">>, <<"F", "A", "R", " ", "2", ".", "5">>>>, percent |-> None],
      [lines |-> <<<<"N", "o", " ", "r", "u", "l", "e", "s", " ", "o", "n", " ", "t", "h", "i", "s", " ", "p", "a", "g", "e">>>>, percent |-> None] }

-----------------------------------------------------------------------------
(* Calls on one PDFDataExtractor *)

\* PDFDataExtractor.extract_by_laws(pdf_path): an exception of
\* pdfplumber.open leaves the method; else the rule set is returned.
PDFDataExtractor_extract_by_laws ==
    /\ \E d \in Documents :
          LET e == extract_by_laws_of(d.pages, pdf_found_rules)
          IN  /\ pdf_call' = [status |-> "extract_by_laws", document |-> d]
              /\ IF d.readable
                 THEN /\ pdf_found_rules' = e.found_rules
                      /\ pdf_ret' = Returns(e.rules)
                 ELSE /\ pdf_found_rules' = pdf_found_rules
                      /\ pdf_ret' = Raises("PDFSyntaxError")
    /\ UNCHANGED <<seqvars, concvars, pipevars, dxfvars>>

\* PDFDataExtractor._process_table_row(row, rules) on a rule set that
\* holds no rule yet; the rule set is changed in place.
PDFDataExtractor_process_table_row ==
    /\ \E r \in Rows :
          LET e == _process_table_row(r.cells, NoRules, pdf_found_rules)
          IN  /\ pdf_call' = [status |-> "_process_table_row", row |-> r]
              /\ pdf_found_rules' = e.found_rules
              /\ pdf_ret' = Returns(e.rules)
    /\ UNCHANGED <<seqvars, concvars, pipevars, dxfvars>>

\* PDFDataExtractor._parse_text(text, rules) on a rule set that holds no
\* rule yet; the rule set is changed in place.
PDFDataExtractor_parse_text ==
    /\ \E t \in Texts :
          LET e == _parse_text(t.lines, NoRules, pdf_found_rules)
          IN  /\ pdf_call' = [status |-> "_parse_text", text |-> t]
              /\ pdf_found_rules' = e.found_rules
              /\ pdf_ret' = Returns(e.rules)
    /\ UNCHANGED <<seqvars, concvars, pipevars, dxfvars>>

InitPdf ==
    /\ NoCaller
    /\ NoThreads
    /\ NoPipeline
    /\ NoPdf
    /\ NoDxf

NextPdf ==
    \/ PDFDataExtractor_extract_by_laws
    \/ PDFDataExtractor_process_table_row
    \/ PDFDataExtractor_parse_text

SpecPdf == InitPdf /\ [][NextPdf]_vars

-----------------------------------------------------------------------------
(* DXFDataExtractor (src/src/modules/get_data_from_dxf.py) *)

\* Coordinates of a drawing are whole millimetres; a length of the metrics
\* is the millimetres times mm_to_m, that is, the same number read as
\* thousandths of a metre.  The model's footprints have corners at whole
\* metres, so their areas are whole square metres.

\* An entity of the modelspace: its dxftype, whether it is closed, its
\* points ((x, y), or (x, y, z) for a 3DFACE) and its text.
Entity(type, closed, points, text) ==
    [dxftype |-> type, closed |-> closed, points |-> points, text |-> text]

\* The largest and the smallest of the c-th coordinates of the points.
MaxCoord(points, c) ==
    CHOOSE v \in {points[i][c] : i \in 1..Len(points)} :
        \A i \in 1..Len(points) : points[i][c] <= v

MinCoord(points, c) ==
    CHOOSE v \in {points[i][c] : i \in 1..Len(points)} :
        \A i \in 1..Len(points) : v <= points[i][c]

\* The text annotation of _get_height: re.search(r'(\d+\.?\d*)\s*m', text),
\* the leftmost number followed by blanks and "m"; None if none.
HeightOfText(text) ==
    LET numbers == {j \in 1..Len(text) : NumberEnd(text, j, TRUE, {"m"}) # 0}
        j0 == Min(numbers)
    IN  IF numbers = {} THEN None
        ELSE float(SubSeq(text, j0, NumberEnd(text, j0, TRUE, {"m"}) - 1))

\* _get_height: the largest z of the first 3DFACE, in metres; else the
\* number of the first TEXT that mentions "height" and holds one; else the
\* default of 10.0 m.
_get_height(msp) ==
    LET faces == {i \in 1..Len(msp) : msp[i].dxftype = "3DFACE"}
        texts == {i \in 1..Len(msp) :
                     /\ msp[i].dxftype = "TEXT"
                     /\ Contains(<<"h", "e", "i", "g", "h", "t">>, lower(msp[i].text))
                     /\ ~IsNone(HeightOfText(msp[i].text))}
    IN  IF faces # {} THEN MaxCoord(msp[Min(faces)].points, 3)
        ELSE IF texts # {} THEN Val(HeightOfText(msp[Min(texts)].text))
        ELSE 10000

\* Twice the signed area of the polygon, by the shoelace formula, from the
\* edge that starts at the point i on.
RECURSIVE Shoelace(_, _)
Shoelace(points, i) ==
    IF i > Len(points) THEN 0
    ELSE LET a == points[i]
             b == points[IF i = Len(points) THEN 1 ELSE i + 1]
         IN  a[1] * b[2] - b[1] * a[2] + Shoelace(points, i + 1)

\* abs(ezdxf.math.area(points)), in square millimetres.
area_mm2(points) == Abs(Shoelace(points, 1)) \div 2

\* parse_floor_plan on a drawing: a file ezdxf cannot read and a drawing
\* without a closed polyline raise; else the footprint is the first of the
\* closed polylines of the largest area, and the metrics are read off its
\* bounding box and its area.
parse_floor_plan_of(d) ==
    LET msp == d.msp
        closed_polylines == {i \in 1..Len(msp) :
                                /\ msp[i].dxftype \in {"LWPOLYLINE", "POLYLINE"}
                                /\ msp[i].closed}
        largest == {i \in closed_polylines :
                       \A j \in closed_polylines :
                           area_mm2(msp[j].points) <= area_mm2(msp[i].points)}
        footprint == msp[Min(largest)].points
        area_m2 == area_mm2(footprint) \div 1000000
    IN  IF ~d.readable THEN Raises("DXFStructureError")
        ELSE IF closed_polylines = {} THEN Raises("ValueError")
        ELSE Returns([height_m |-> _get_height(msp),
                      setback_front_m |-> MaxCoord(footprint, 2),
                      setback_rear_m |-> Abs(MinCoord(footprint, 2)),
                      setback_left_m |-> Abs(MinCoord(footprint, 1)),
                      setback_right_m |-> MaxCoord(footprint, 1),
                      footprint_area_m2 |-> area_m2,
                      total_area_m2 |-> area_m2 * 3])

-----------------------------------------------------------------------------
(* Drawings the parser is called on *)

\* A closed rectangle, counter-clockwise and clockwise.
Rect(x1, y1, x2, y2) ==
    Entity("LWPOLYLINE", TRUE, << <<x1, y1>>, <<x2, y1>>, <<x2, y2>>, <<x1, y2>> >>, <<>>)

RectCW(x1, y1, x2, y2) ==
    Entity("LWPOLYLINE", TRUE, << <<x1, y1>>, <<x1, y2>>, <<x2, y2>>, <<x2, y1>> >>, <<>>)

\* A vertical 3DFACE from the level b up to the level z.
Face(b, z) ==
    Entity("3DFACE", FALSE,
           << <<0, 0, b>>, <<1000, 0, b>>, <<1000, 0, z>>, <<0, 0, z>> >>, <<>>)

Text(t) == Entity("TEXT", FALSE, <<>>, t)

\* A boundary line that is not closed.
OpenLine ==
    Entity("LWPOLYLINE", FALSE, << <<0, 0>>, <<30000, 0>>, <<30000, 40000>> >>, <<>>)

\* Footprints in the first quadrant, across the origin, and partly or
\* wholly at negative coordinates.
Footprints ==
    { Rect(5000, 5000, 15000, 17000),
      RectCW(5000, 5000, 15000, 17000),
      Rect(0, 0, 10000, 12000),
      Rect(0 - 5000, 0 - 6000, 5000, 6000),
      Rect(0 - 12000, 2000, 0 - 2000, 14000),
      Rect(0 - 15000, 0 - 17000, 0 - 5000, 0 - 5000) }

\* What the drawing says about the height: nothing, a 3DFACE above the
\* ground plane or wholly below it, or a text annotation.
HeightEntities ==
    { <<>>,
      <<Face(0, 12000)>>,
      <<Face(0 - 3000, 0 - 500)>>,
      <<Text(<<"H", "e", "i", "g", "h", "t", ":", " ", "1", "5", " ", "m">>)>>,
      <<Text(<<"B", "U", "I", "L", "D", "I", "N", "G", " ", "H", "E", "I", "G", "H", "T", " ", "1", "2", ".", "5", "m">>)>>,
      <<Text(<<"H", "e", "i", "g", "h", "t", ":", " ", "s", "e", "e", " ", "s", "e", "c", "t", "i", "o", "n">>), Text(<<"N", "o", "r", "t", "h">>)>> }

\* What else the drawing holds.
OtherEntities ==
    { <<>>, <<OpenLine>>, <<Rect(1000, 1000, 3000, 2000)>> }

Drawing(readable, msp) == [readable |-> readable, msp |-> msp]

Drawings ==
    { Drawing(TRUE, o \o <<f>> \o h) :
          o \in OtherEntities, f \in Footprints, h \in HeightEntities }
      \cup { Drawing(TRUE, <<OpenLine>> \o h) : h \in HeightEntities }
      \cup { Drawing(FALSE, <<>>) }

-----------------------------------------------------------------------------
(* Calls on one DXFDataExtractor *)

\* DXFDataExtractor.parse_floor_plan(dxf_path).
DXFDataExtractor_parse_floor_plan ==
    /\ \E d \in Drawings :
          /\ dxf_file' = [status |-> "parse_floor_plan", drawing |-> d]
          /\ dxf_ret' = parse_floor_plan_of(d)
    /\ UNCHANGED <<seqvars, concvars, pipevars, pdfvars>>

\* DXFDataExtractor._get_height(msp) on the modelspace of a drawing.
DXFDataExtractor_get_height ==
    /\ \E d \in Drawings :
          /\ d.readable
          /\ dxf_file' = [status |-> "_get_height", drawing |-> d]
          /\ dxf_ret' = Returns(_get_height(d.msp))
    /\ UNCHANGED <<seqvars, concvars, pipevars, pdfvars>>

InitDxf ==
    /\ NoCaller
    /\ NoThreads
    /\ NoPipeline
    /\ NoPdf
    /\ NoDxf

NextDxf ==
    \/ DXFDataExtractor_parse_floor_plan
    \/ DXFDataExtractor_get_height

SpecDxf == InitDxf /\ [][NextDxf]_vars

-----------------------------------------------------------------------------
(* Repeated calls on one validator *)

\* A call that raises before its first check has compared anything.
ArgsRaisingAtHeight == Args(LawsOf({}), MetricsA, GisA, RuleKeys)

\* A call that raises in the front-setback check, after the height check
\* has appended its violation.
ArgsRaisingAtFront == Args(LawsOf({"max_height_m"}), MetricsA, GisA, RuleKeys)

\* The records a caller passes in a sequence of calls on one validator.
CallArgs == BaseArgs \cup {ArgsRaisingAtHeight, ArgsRaisingAtFront}

\* The caller keeps what the last call gave: the arguments it passed and the
\* tuple it got back (whose list is the object self.violations is bound
\* to), or the exception.
Remember ==
    /\ ret.status # "none"
    /\ kept' = [status |-> "kept", args |-> CurrentArgs, outcome |-> ret,
                ref |-> IF ret.status = "returned" THEN vref ELSE 0]
    /\ kept' # kept
    /\ UNCHANGED <<by_laws, dxf_metrics, gis_result, found_rules, violations, compliant,
                   ret, sret, heap, vref, log>>
    /\ UNCHANGED <<concvars, pipevars, extvars>>

NextCalls ==
    \/ \E a \in CallArgs : check_compliance(a)
    \/ Remember

SpecCalls == Init /\ [][NextCalls]_vars

-----------------------------------------------------------------------------
(* Reading a verdict *)

\* The check a violation comes from: "height", "front", "rear", "left side",
\* "right side", "far", "coverage", "boundary", "parking".
CheckOf(v) == IF v.kind = "setback" THEN v.name ELSE v.kind

\* The violations of the list vs that come from the check c.
Of(vs, c) == {i \in 1..Len(vs) : CheckOf(vs[i]) = c}

\* The checks each rule key governs.
ChecksOfRule ==
    [max_height_m |-> {"height"}, min_setback_front_m |-> {"front"},
     min_setback_rear_m |-> {"rear"}, min_setback_side_m |-> {"left side", "right side"},
     max_far |-> {"far"}, max_coverage |-> {"coverage"}]

\* The call of the validator, resp. of the standalone engine, returned a verdict.
HasVerdict == ret.status = "returned"

HasVerdictS == sret.status = "returned"

\* |x|
\* e is the quotient n / d (d > 0) in units of 1/scale, to the nearest unit.
IsRounded(e, n, d, scale) == 2 * Abs(e * d - scale * n) <= d

-----------------------------------------------------------------------------
(* Claims *)

\* C1: the boundary check is always evaluated by ComplianceValidator: whenever
\* check_compliance returns a verdict for a gis_result whose within_plot is
\* false, the violations contain a boundary violation citing
\* violation_distance_m and approved is false.
C1_BoundaryAlwaysEvaluated ==
    (HasVerdict /\ ~gis_result.within_plot) =>
        /\ \E i \in Of(ret.violations, "boundary") :
              IsRounded(ret.violations[i].distance, gis_result.violation_distance_m, 10, 1)
        /\ ~ret.approved

\* C2: a check whose rule key is not in found_rules is skipped: it adds no
\* violation and raises nothing, whatever the metric and whatever by_laws
\* holds for the key; and a found rule whose threshold is 0 is evaluated (a
\* positive height, FAR or coverage exceeds it).
C2_AbsentRuleSkipped ==
    /\ \A k \in RuleKeys \ found_rules : \A c \in ChecksOfRule[k] :
          /\ Of(violations, c) = {}
          /\ HasVerdict => Of(ret.violations, c) = {}
          /\ ret.status = "raised" => ret.at # c
    /\ HasVerdict =>
          /\ ("max_height_m" \in found_rules /\ by_laws["max_height_m"] = Some(0)
                /\ dxf_metrics["height_m"] > 0) => Of(ret.violations, "height") # {}
          /\ ("max_far" \in found_rules /\ by_laws["max_far"] = Some(0)
                /\ gis_result.plot_area_m2 > 0 /\ dxf_metrics["total_area_m2"] > 0)
                => Of(ret.violations, "far") # {}
          /\ ("max_coverage" \in found_rules /\ by_laws["max_coverage"] = Some(0)
                /\ gis_result.plot_area_m2 > 0 /\ dxf_metrics["footprint_area_m2"] > 0)
                => Of(ret.violations, "coverage") # {}

\* C2 witness: a verdict for records whose height rule was not found while
\* by_laws holds 0 for it and the building has a height, and whose FAR rule
\* was found and is violated.
C2_Witness ==
    /\ HasVerdict
    /\ "max_height_m" \notin found_rules
    /\ by_laws["max_height_m"] = Some(0)
    /\ dxf_metrics["height_m"] > 0
    /\ Of(ret.violations, "far") # {}

\* C3: every verdict satisfies approved == (violations is empty), in both
\* engines.
C3_ApprovedIffNoViolations ==
    /\ HasVerdict => (ret.approved <=> ret.violations = <<>>)
    /\ HasVerdictS => (sret.approved <=> sret.violations = <<>>)

\* C3 witness: both engines returned a verdict on the same records, the
\* validator's with violations, and one of the two approved.
C3_Witness ==
    /\ HasVerdict /\ HasVerdictS
    /\ ret.violations # <<>>
    /\ ~ret.approved
    /\ sret.violations # <<>>

\* C4: when no rule was found, ComplianceValidator.check_compliance returns
\* approved = within_plot, and the violations hold at most the boundary
\* message (exactly one, citing the distance, when within_plot is false).
C4_NoRulesOnlyBoundary ==
    (HasVerdict /\ found_rules = {}) =>
        /\ ret.approved = gis_result.within_plot
        /\ \A i \in 1..Len(ret.violations) : CheckOf(ret.violations[i]) = "boundary"
        /\ ~gis_result.within_plot => Len(ret.violations) = 1

\* The records of Scenario B with all six rules found and nothing else in
\* the dicts.
IsScenarioB ==
    /\ by_laws = LawsOf(RuleKeys)
    /\ found_rules = RuleKeys
    /\ dxf_metrics = MetricsB
    /\ gis_result = GisA

\* The checks the violations of a list come from, in order.
ChecksIn(vs) == [i \in 1..Len(vs) |-> CheckOf(vs[i])]

\* C5: equality is never a violation, in both engines: a check whose actual
\* value equals its threshold (height, each setback, FAR and coverage on a
\* positive plot area) yields no violation; Scenario B leaves exactly the
\* left-setback and the FAR violation.
C5_EqualityIsCompliant ==
    /\ HasVerdict =>
          /\ ("max_height_m" \in found_rules
                /\ dxf_metrics["height_m"] = Val(by_laws["max_height_m"]))
                => Of(ret.violations, "height") = {}
          /\ ("min_setback_front_m" \in found_rules
                /\ dxf_metrics["setback_front_m"] = Val(by_laws["min_setback_front_m"]))
                => Of(ret.violations, "front") = {}
          /\ ("min_setback_rear_m" \in found_rules
                /\ dxf_metrics["setback_rear_m"] = Val(by_laws["min_setback_rear_m"]))
                => Of(ret.violations, "rear") = {}
          /\ ("min_setback_side_m" \in found_rules
                /\ dxf_metrics["setback_left_m"] = Val(by_laws["min_setback_side_m"]))
                => Of(ret.violations, "left side") = {}
          /\ ("min_setback_side_m" \in found_rules
                /\ dxf_metrics["setback_right_m"] = Val(by_laws["min_setback_side_m"]))
                => Of(ret.violations, "right side") = {}
          /\ ("max_far" \in found_rules /\ gis_result.plot_area_m2 > 0
                /\ dxf_metrics["total_area_m2"] * 1000
                      = Val(by_laws["max_far"]) * gis_result.plot_area_m2)
                => Of(ret.violations, "far") = {}
          /\ ("max_coverage" \in found_rules /\ gis_result.plot_area_m2 > 0
                /\ dxf_metrics["footprint_area_m2"] * 1000
                      = Val(by_laws["max_coverage"]) * gis_result.plot_area_m2)
                => Of(ret.violations, "coverage") = {}
          /\ IsScenarioB => ChecksIn(ret.violations) = <<"left side", "far">>
    /\ HasVerdictS =>
          /\ dxf_metrics["height_m"] = Val(by_laws["max_height_m"])
                => Of(sret.violations, "height") = {}
          /\ dxf_metrics["setback_front_m"] = Val(by_laws["min_setback_front_m"])
                => Of(sret.violations, "front") = {}
          /\ dxf_metrics["setback_rear_m"] = Val(by_laws["min_setback_rear_m"])
                => Of(sret.violations, "rear") = {}
          /\ dxf_metrics["setback_left_m"] = Val(by_laws["min_setback_side_m"])
                => Of(sret.violations, "left side") = {}
          /\ dxf_metrics["setback_right_m"] = Val(by_laws["min_setback_side_m"])
                => Of(sret.violations, "right side") = {}
          /\ dxf_metrics["total_area_m2"] * 1000
                = Val(by_laws["max_far"]) * gis_result.plot_area_m2
                => Of(sret.violations, "far") = {}
          /\ dxf_metrics["footprint_area_m2"] * 1000
                = Val(by_laws["max_coverage"]) * gis_result.plot_area_m2
                => Of(sret.violations, "coverage") = {}
          /\ IsScenarioB => ChecksIn(sret.violations) = <<"left side", "far">>

\* C5 witness: both engines returned a verdict on Scenario B.
C5_Witness == IsScenarioB /\ HasVerdict /\ HasVerdictS

\* C6, in a state: when the height rule was found, a verdict holds a height
\* violation exactly if height_m > max_height_m, only one, and its excess
\* is height_m - max_height_m to 2 decimals.
C6_HeightVerdict ==
    (HasVerdict /\ "max_height_m" \in found_rules) =>
        LET actual == dxf_metrics["height_m"]
            allowed == Val(by_laws["max_height_m"])
            hs == Of(ret.violations, "height")
        IN  /\ hs # {} <=> actual > allowed
            /\ Cardinality(hs) <= 1
            /\ \A i \in hs : IsRounded(ret.violations[i].excess, actual - allowed, 10, 1)

\* C6, between two calls: the second call differs from the first only in a
\* height_m raised from within the cap to past it.
HeightRaisedPastCap ==
    /\ HasVerdict /\ ret'.status = "returned"
    /\ "max_height_m" \in found_rules
    /\ by_laws' = by_laws /\ gis_result' = gis_result /\ found_rules' = found_rules
    /\ DOMAIN dxf_metrics' = DOMAIN dxf_metrics
    /\ \A k \in DOMAIN dxf_metrics \ {"height_m"} : dxf_metrics'[k] = dxf_metrics[k]
    /\ dxf_metrics["height_m"] <= Val(by_laws["max_height_m"])
    /\ dxf_metrics'["height_m"] > Val(by_laws["max_height_m"])

\* C6: the height check of ComplianceValidator.check_compliance: violation
\* iff height_m > max_height_m, the excess reported to 2 decimals; raising
\* height_m past the cap, all else fixed, changes the verdict only by adding
\* that one violation.
C6_HeightCheck ==
    /\ []C6_HeightVerdict
    /\ [][HeightRaisedPastCap =>
            /\ ret'.violations # <<>>
            /\ CheckOf(Head(ret'.violations)) = "height"
            /\ Tail(ret'.violations) = ret.violations
            /\ ~ret'.approved]_vars

\* C6 witness: a verdict with a height violation whose excess is not a
\* whole number of centimetres before rounding.
C6_Witness ==
    /\ HasVerdict
    /\ "max_height_m" \in found_rules
    /\ (dxf_metrics["height_m"] - Val(by_laws["max_height_m"])) % 10 # 0
    /\ Of(ret.violations, "height") # {}

\* C7: four independent setback checks: front iff min_setback_front_m was
\* found, rear iff min_setback_rear_m was found, left and right iff
\* min_setback_side_m was found, both against that one threshold; each
\* yields its own violation iff actual < required.
C7_SetbackChecks ==
    HasVerdict =>
        /\ Of(ret.violations, "front") # {} <=>
              /\ "min_setback_front_m" \in found_rules
              /\ dxf_metrics["setback_front_m"] < Val(by_laws["min_setback_front_m"])
        /\ Of(ret.violations, "rear") # {} <=>
              /\ "min_setback_rear_m" \in found_rules
              /\ dxf_metrics["setback_rear_m"] < Val(by_laws["min_setback_rear_m"])
        /\ Of(ret.violations, "left side") # {} <=>
              /\ "min_setback_side_m" \in found_rules
              /\ dxf_metrics["setback_left_m"] < Val(by_laws["min_setback_side_m"])
        /\ Of(ret.violations, "right side") # {} <=>
              /\ "min_setback_side_m" \in found_rules
              /\ dxf_metrics["setback_right_m"] < Val(by_laws["min_setback_side_m"])
        /\ \A c \in {"front", "rear", "left side", "right side"} :
              Cardinality(Of(ret.violations, c)) <= 1

\* C7 witness: the side rule was found and the left setback violates it
\* while the right one does not; the front setback is short of the
\* threshold by_laws holds, but the front rule was not found.
C7_Witness ==
    /\ HasVerdict
    /\ Of(ret.violations, "left side") # {}
    /\ Of(ret.violations, "right side") = {}
    /\ "min_setback_front_m" \notin found_rules
    /\ by_laws["min_setback_front_m"] # None
    /\ dxf_metrics["setback_front_m"] < Val(by_laws["min_setback_front_m"])

\* C8: when max_far was found and plot_area_m2 > 0, far is total_area_m2 /
\* plot_area_m2 and a verdict holds a FAR violation exactly if far > max_far;
\* the violation reports far and max_far (each to 2 decimals).
C8_FarCheck ==
    (HasVerdict /\ "max_far" \in found_rules /\ gis_result.plot_area_m2 > 0) =>
        LET total == dxf_metrics["total_area_m2"]
            plot == gis_result.plot_area_m2
            max_far == Val(by_laws["max_far"])
            fs == Of(ret.violations, "far")
        IN  /\ fs # {} <=> total * 1000 > max_far * plot
            /\ Cardinality(fs) <= 1
            /\ \A i \in fs :
                  /\ IsRounded(ret.violations[i].far, total, plot, 100)
                  /\ IsRounded(ret.violations[i].allowed, max_far, 10, 1)

\* C8 witness: a FAR violation on a plot whose area does not divide the
\* total area to 2 decimals, with no coverage violation beside it.
C8_Witness ==
    /\ HasVerdict
    /\ "max_far" \in found_rules
    /\ gis_result.plot_area_m2 > 0
    /\ (100 * dxf_metrics["total_area_m2"]) % gis_result.plot_area_m2 # 0
    /\ Of(ret.violations, "far") # {}
    /\ Of(ret.violations, "coverage") = {}

\* C9: when max_coverage was found and plot_area_m2 > 0, coverage is
\* footprint_area_m2 / plot_area_m2 (the footprint, not the total built
\* area) and a verdict holds a coverage violation exactly if coverage >
\* max_coverage; the violation reports both as percentages.
C9_CoverageCheck ==
    (HasVerdict /\ "max_coverage" \in found_rules /\ gis_result.plot_area_m2 > 0) =>
        LET footprint == dxf_metrics["footprint_area_m2"]
            plot == gis_result.plot_area_m2
            max_coverage == Val(by_laws["max_coverage"])
            cs == Of(ret.violations, "coverage")
        IN  /\ cs # {} <=> footprint * 1000 > max_coverage * plot
            /\ Cardinality(cs) <= 1
            /\ \A i \in cs :
                  /\ IsRounded(ret.violations[i].coverage, footprint, plot, 1000)
                  /\ ret.violations[i].allowed = max_coverage

\* C9 witness: the footprint is within the coverage cap while the total
\* built area is beyond it: no coverage violation, whereas the total area
\* over the plot area exceeds max_coverage.
C9_Witness ==
    /\ HasVerdict
    /\ "max_coverage" \in found_rules
    /\ gis_result.plot_area_m2 > 0
    /\ by_laws["max_coverage"] # Some(0)
    /\ dxf_metrics["total_area_m2"] * 1000
          > Val(by_laws["max_coverage"]) * gis_result.plot_area_m2
    /\ Of(ret.violations, "coverage") = {}

\* The height and setback rules that were found have a threshold (the
\* caller's part of the contract for the checks that remain on a zero plot
\* area).
HeightAndSetbackRulesStated ==
    \A k \in found_rules \ {"max_far", "max_coverage"} : by_laws[k] # None

\* C10: division guard: on plot_area_m2 == 0 with max_far and/or
\* max_coverage found, check_compliance raises nothing and returns a
\* verdict without a FAR or a coverage violation, in which the height and
\* the setback checks are evaluated.
C10_DivisionGuard ==
    (ret.status # "none" /\ gis_result.plot_area_m2 = 0
        /\ found_rules \cap {"max_far", "max_coverage"} # {}) =>
        /\ ret.status = "raised" => ret.at \notin {"far", "coverage"}
        /\ HeightAndSetbackRulesStated => HasVerdict
        /\ HasVerdict =>
              /\ Of(ret.violations, "far") = {}
              /\ Of(ret.violations, "coverage") = {}
              /\ Of(ret.violations, "height") # {} <=>
                    /\ "max_height_m" \in found_rules
                    /\ dxf_metrics["height_m"] > Val(by_laws["max_height_m"])
              /\ Of(ret.violations, "left side") # {} <=>
                    /\ "min_setback_side_m" \in found_rules
                    /\ dxf_metrics["setback_left_m"] < Val(by_laws["min_setback_side_m"])

\* C10 witness: a verdict on a zero plot area with both ratio rules found,
\* holding a height and a left-setback violation.
C10_Witness ==
    /\ HasVerdict
    /\ gis_result.plot_area_m2 = 0
    /\ {"max_far", "max_coverage"} \subseteq found_rules
    /\ dxf_metrics["total_area_m2"] > 0
    /\ Of(ret.violations, "height") # {}
    /\ Of(ret.violations, "left side") # {}

\* The records are well formed for the standalone engine: every metric is
\* there and the plot area is not negative (any subset of the six rules may
\* be stated in by_laws).
WellFormedS ==
    /\ MetricKeys \subseteq DOMAIN dxf_metrics
    /\ gis_result.plot_area_m2 >= 0

\* C11: validator.check_compliance never raises for well-formed inputs: on
\* fully populated metrics and boundary records (plot_area_m2 >= 0) and any
\* subset of the six rules it returns a verdict.
C11_StandaloneNeverRaises ==
    (sret.status # "none" /\ WellFormedS) => HasVerdictS

\* The records of Scenario A with all six rules found and nothing else in
\* the dicts.
IsScenarioA ==
    /\ by_laws = LawsOf(RuleKeys)
    /\ found_rules = RuleKeys
    /\ dxf_metrics = MetricsA
    /\ gis_result = GisA

\* The strict comparison of a check fails on the records of the run (every
\* threshold stated, positive plot area).
ComparisonFails ==
    [height |-> dxf_metrics["height_m"] > Val(by_laws["max_height_m"]),
     front |-> dxf_metrics["setback_front_m"] < Val(by_laws["min_setback_front_m"]),
     rear |-> dxf_metrics["setback_rear_m"] < Val(by_laws["min_setback_rear_m"]),
     left |-> dxf_metrics["setback_left_m"] < Val(by_laws["min_setback_side_m"]),
     right |-> dxf_metrics["setback_right_m"] < Val(by_laws["min_setback_side_m"]),
     far |-> dxf_metrics["total_area_m2"] * 1000
                > Val(by_laws["max_far"]) * gis_result.plot_area_m2,
     coverage |-> dxf_metrics["footprint_area_m2"] * 1000
                > Val(by_laws["max_coverage"]) * gis_result.plot_area_m2]

\* C12: the checks are independent: with all six rules found, within_plot
\* true and a positive plot area, a verdict holds exactly one violation for
\* each of the seven checks whose strict comparison fails and nothing else;
\* Scenario A is rejected with exactly the height, front-setback,
\* left-setback and FAR violations.
C12_IndependentChecks ==
    (HasVerdict /\ found_rules = RuleKeys /\ gis_result.within_plot
        /\ gis_result.plot_area_m2 > 0) =>
        LET n(c, fails) == Cardinality(Of(ret.violations, c)) = (IF fails THEN 1 ELSE 0)
            count == Cardinality({c \in DOMAIN ComparisonFails : ComparisonFails[c]})
        IN  /\ n("height", ComparisonFails.height)
            /\ n("front", ComparisonFails.front)
            /\ n("rear", ComparisonFails.rear)
            /\ n("left side", ComparisonFails.left)
            /\ n("right side", ComparisonFails.right)
            /\ n("far", ComparisonFails.far)
            /\ n("coverage", ComparisonFails.coverage)
            /\ Len(ret.violations) = count
            /\ IsScenarioA =>
                  /\ ~ret.approved
                  /\ Len(ret.violations) = 4
                  /\ {CheckOf(ret.violations[i]) : i \in 1..4}
                        = {"height", "front", "left side", "far"}

\* C12 witness: the verdict on Scenario A.
C12_Witness == IsScenarioA /\ HasVerdict /\ Len(ret.violations) = 4

\* The place of each of the eight specified kinds in the evaluation order.
OrderOfChecks ==
    [boundary |-> 1, height |-> 2, front |-> 3, rear |-> 4, left |-> 5, right |-> 6,
     far |-> 7, coverage |-> 8]

PlaceOf(v) ==
    IF v.kind = "setback"
    THEN (IF v.name = "front" THEN OrderOfChecks.front
          ELSE IF v.name = "rear" THEN OrderOfChecks.rear
          ELSE IF v.name = "left side" THEN OrderOfChecks.left
          ELSE OrderOfChecks.right)
    ELSE OrderOfChecks[v.kind]

\* The violations of the eight kinds in vs stand in the evaluation order,
\* each kind at most once.
InEvaluationOrder(vs) ==
    \A i, j \in {k \in 1..Len(vs) : vs[k].kind # "parking"} :
        i < j => PlaceOf(vs[i]) < PlaceOf(vs[j])

\* C13: the violations of every verdict, of either engine, are in evaluation
\* order: boundary, height, front, rear, left and right setback, FAR,
\* coverage, each kind at most once.
C13_EvaluationOrder ==
    /\ HasVerdict => InEvaluationOrder(ret.violations)
    /\ HasVerdictS => InEvaluationOrder(sret.violations)

\* C13 witness: every check of both engines yields its violation: seven
\* from the validator, eight (with the boundary) from the standalone engine.
C13_Witness ==
    /\ HasVerdict /\ Len(ret.violations) = 7
    /\ HasVerdictS /\ Len(sret.violations) = 8

\* C14: the outcome of a call depends only on its arguments: whenever the
\* last call on a validator had the arguments of a call made earlier on it,
\* whatever was called in between, both gave the same outcome: the same
\* approved and equal violation strings, or the same exception.
C14_VerdictFromArgumentsOnly ==
    (kept # NoKept /\ ret.status # "none" /\ kept.args = CurrentArgs) =>
        ret = kept.outcome

\* C14 witness: a verdict with violations returned again, in another list
\* object, by a later call with the arguments of the kept one.
C14_Witness ==
    /\ kept # NoKept /\ kept.args = CurrentArgs
    /\ HasVerdict /\ Len(ret.violations) > 0
    /\ kept.outcome.status = "returned" /\ kept.ref # vref

\* The list the caller holds has the contents it was returned with.
C15_KeptListUnchanged ==
    (kept # NoKept /\ kept.outcome.status = "returned") =>
        heap[kept.ref] = kept.outcome.violations

\* C15: a call only reads its inputs and allocates a fresh verdict: the
\* four records are after the call what the caller passed, and the
\* violations list a call returned is never modified by a later call on the
\* same validator.
C15_FreshVerdict ==
    /\ []C15_KeptListUnchanged
    /\ [][\A a \in CallArgs : check_compliance(a) => CurrentArgs' = a]_vars

\* C15 witness: the caller holds a returned list with violations while
\* self.violations is bound to another list with other contents.
C15_Witness ==
    /\ kept # NoKept /\ kept.outcome.status = "returned"
    /\ Len(kept.outcome.violations) > 0
    /\ kept.ref # vref
    /\ heap[vref] # heap[kept.ref]

\* What a call with the records a returns or raises when nothing else runs.
Alone(a) ==
    LET r == RunChecks(a.by_laws, a.dxf_metrics, a.gis_result, a.found_rules)
    IN  IF r.exc = ""
        THEN Returned(Compliant(r.violations), r.violations)
        ELSE Raised(r.exc, r.at)

\* C16: two concurrent check_compliance calls, on two validators or on one
\* shared validator, each end with the outcome the call has when it runs
\* alone, whatever the interleaving.
C16_ConcurrentCallsAsAlone ==
    \A t \in Threads : pc[t] = "done" => tret[t] = Alone(targs[t])

\* What can be observed of the check c in an outcome: its violations in
\* the returned list and in self.violations, and the events it logged.
\* (approved and self.compliant are derived from the violations.)
ObservedOfCheck(c, returned, recorded, logged) ==
    [returned |-> SelectSeq(returned, LAMBDA v : v.kind = c),
     recorded |-> SelectSeq(recorded, LAMBDA v : v.kind = c),
     logged |-> SelectSeq(logged, LAMBDA e : "check" \in DOMAIN e /\ e.check = c)]

\* The rule of a ratio check.
RatioRule == [far |-> "max_far", coverage |-> "max_coverage"]

\* C18: a skipped ratio check is observable: when the rule of the FAR or
\* coverage check is found and plot_area_m2 is 0, what the call returns,
\* records in the validator and logs about the check differs from what it
\* returns, records and logs on the same records with a positive plot area
\* on which the check is evaluated and passes.
C18_SkippedCheckObservable ==
    (HasVerdict /\ gis_result.plot_area_m2 = 0) =>
        \A c \in DOMAIN RatioRule : \A p \in PlotAreas \ {0} :
            LET gr == [gis_result EXCEPT !.plot_area_m2 = p]
                o == Alone(Args(by_laws, dxf_metrics, gr, found_rules))
                lg == LogOfCall(by_laws, dxf_metrics, gr, found_rules)
            IN  (/\ RatioRule[c] \in found_rules
                 /\ o.status = "returned"
                 /\ \A i \in 1..Len(o.violations) : o.violations[i].kind # c)
                => ObservedOfCheck(c, o.violations, o.violations, lg)
                      # ObservedOfCheck(c, ret.violations, violations, log)

\* C18 witness: a verdict on a plot of area 0 with the FAR rule found, on
\* records whose FAR passes on the plot of 1200 m2.
C18_Witness ==
    /\ HasVerdict /\ gis_result.plot_area_m2 = 0 /\ "max_far" \in found_rules
    /\ dxf_metrics["total_area_m2"] * 1000 <= Val(by_laws["max_far"]) * 1200
    /\ \A i \in 1..Len(log) : "check" \in DOMAIN log[i] => log[i].check # "far"

\* A rule was found and a metric or boundary field its check reads is not
\* in the records the extractors returned.
ContractViolated ==
    /\ {"by_laws", "found_rules", "dxf_metrics", "gis_result"} \subseteq DOMAIN locals
    /\ LET fr == locals["found_rules"]
           dm == DOMAIN locals["dxf_metrics"]
           gr == DOMAIN locals["gis_result"]
       IN  \/ "max_height_m" \in fr /\ "height_m" \notin dm
           \/ "min_setback_front_m" \in fr /\ "setback_front_m" \notin dm
           \/ "min_setback_rear_m" \in fr /\ "setback_rear_m" \notin dm
           \/ "min_setback_side_m" \in fr
                /\ {"setback_left_m", "setback_right_m"} \ dm # {}
           \/ "max_far" \in fr
                /\ ("total_area_m2" \notin dm \/ "plot_area_m2" \notin gr)
           \/ "max_coverage" \in fr
                /\ ("footprint_area_m2" \notin dm \/ "plot_area_m2" \notin gr)

PhaseOrder == <<"extract_by_laws", "parse_floor_plan", "validate_plot", "check_compliance">>

\* C19: the engine sees fully-formed records or does not run: the phases
\* run in the order extract_by_laws, parse_floor_plan, validate_plot,
\* check_compliance, each only after the ones before it have returned; a
\* phase that raises is the last one to run, and its exception is what
\* run_pipeline raises to its caller.
C19_PhasesInOrder ==
    /\ Len(trace) <= Len(PhaseOrder)
    /\ \A i \in 1..Len(trace) :
          /\ trace[i].phase = PhaseOrder[i]
          /\ i < Len(trace) => trace[i].result = "returned"
    /\ (trace # <<>> /\ trace[Len(trace)].result = "raised") =>
          /\ pexc.status = "raised"
          /\ trace[Len(trace)].phase # "check_compliance"
                => pexc.at = trace[Len(trace)].phase
          /\ ppc \in {"pipeline_except", "main_except", "exit"}
          /\ ppc # "pipeline_except" => pret = pexc

\* C19 witness: validate_plot raised after two phases returned, and
\* run_pipeline has raised its exception to main.
C19_Witness ==
    /\ Len(trace) = 3
    /\ trace[3] = Phase("validate_plot", "raised")
    /\ pret = Raised("DriverError", "validate_plot")

\* C20: main exits with code 0 if and only if run_pipeline returned with
\* approved true; with code 1 on a rejection and whenever a step failed.
C20_ExitCodeFollowsApproved ==
    ppc = "exit" =>
        /\ exit_code \in {Some(0), Some(1)}
        /\ exit_code = Some(0) <=> (pret.status = "returned" /\ pret.approved)

\* C20 witness: a run that was approved and has exited.
C20_Witness ==
    /\ ppc = "exit" /\ exit_code = Some(0)
    /\ pret.status = "returned" /\ pret.approved
    /\ Len(trace) = 4

\* C24: every setback violation of ComplianceValidator.check_compliance
\* includes the shortfall required - actual of its side.
C24_SetbackShortfallReported ==
    HasVerdict =>
        \A i \in 1..Len(ret.violations) :
            ret.violations[i].kind = "setback" =>
                /\ "missing" \in DOMAIN ret.violations[i]
                /\ \E k \in 1..Len(setbacks) :
                      /\ setbacks[k][1] = ret.violations[i].name
                      /\ ret.violations[i].missing =
                            Fmt2(Val(by_laws[setbacks[k][2]]) - dxf_metrics[setbacks[k][3]])

\* C26: in every state of a validator, after calls that returned and after
\* calls that raised part-way, compliant is true exactly if violations is
\* empty, so that print_compliance_summary never prints APPROVED above a
\* list of violations.
C26_CompliantIffNoViolations ==
    compliant <=> (Len(violations) = 0)


\* get_found_rules(): a copy of self.found_rules.
get_found_rules == pdf_found_rules

\* The keys whose value in the rule set is not None.
KeysNotNone(rules) == {k \in DOMAIN rules : ~IsNone(rules[k])}

\* C21: after every call of PDFDataExtractor.extract_by_laws that returns,
\* a second or later call on the same extractor included, get_found_rules()
\* is the set of the rule keys whose value in the returned rule set is not
\* None.
C21_FoundRulesOfThisDocument ==
    (pdf_call.status = "extract_by_laws" /\ pdf_ret.status = "returns") =>
        get_found_rules = KeysNotNone(pdf_ret.value)

\* C22: when _process_table_row or _parse_text records max_coverage from a
\* row or a text that states a coverage of p percent, 0 <= p <= 100, the
\* stored value is p/100 (p * 10 thousandths) and lies in [0, 1].
C22_CoverageStoredAsFraction ==
    (/\ pdf_call.status \in {"_process_table_row", "_parse_text"}
     /\ ~IsNone(pdf_ret.value["max_coverage"])) =>
        LET input == IF pdf_call.status = "_process_table_row" THEN pdf_call.row
                     ELSE pdf_call.text
            stored == Val(pdf_ret.value["max_coverage"])
        IN  ~IsNone(input.percent) =>
                /\ stored = 10 * Val(input.percent)
                /\ 0 <= stored /\ stored <= 1000

\* The rule keys the rows of the tables of the pages state: the rows of
\* four cells or more after a first header cell that contains "Rule Name".
RulesOfTables(pages) ==
    UNION { _process_table_row(pages[p].tables[t][i], NoRules, {}).found_rules :
              <<p, t, i>> \in
                 { x \in (1..Len(pages)) \X (1..2) \X (2..4) :
                      /\ x[2] <= Len(pages[x[1]].tables)
                      /\ x[3] <= Len(pages[x[1]].tables[x[2]])
                      /\ Contains(<<"R", "u", "l", "e", " ", "N", "a", "m", "e">>, pages[x[1]].tables[x[2]][1][1])
                      /\ Len(pages[x[1]].tables[x[2]][x[3]]) >= 4 } }

\* C25: when a page holds a table whose first header cell contains
\* "Rule Name", a rule stated in a later row of four cells or more is in
\* the rule set extract_by_laws returns and in found_rules.
C25_RulesOfTablesExtracted ==
    (pdf_call.status = "extract_by_laws" /\ pdf_ret.status = "returns") =>
        \A k \in RulesOfTables(pdf_call.document.pages) :
            /\ ~IsNone(pdf_ret.value[k])
            /\ k \in get_found_rules


\* C23: every value of the metrics DXFDataExtractor.parse_floor_plan
\* returns is non-negative: height_m, the four setbacks, footprint_area_m2
\* and total_area_m2, also for a footprint whose bounding box lies partly
\* or wholly at negative coordinates.
C23_MetricsNonNegative ==
    (dxf_file.status = "parse_floor_plan" /\ dxf_ret.status = "returns") =>
        \A k \in DOMAIN dxf_ret.value : dxf_ret.value[k] >= 0

====
